---------------------------- MODULE Spec2Model ----------------------------
(***************************************************************************)
(* KubeVision streaming telemetry pipeline.                                *)
(*                                                                         *)
(*   SpecCalc   the StatsCalculator (internal/docker/metrics.go)           *)
(*   SpecStats  one stats connection of StatsHandler                       *)
(*              (internal/websocket/stats_handler.go)                      *)
(*   SpecLogs   one logs connection of LogsHandler with stripDockerHeader  *)
(*   SpecStrip  the loop of stripDockerHeader, step by step                *)
(*   SpecKeepalive  read deadline and pings of a streaming connection      *)
(*   SpecWriters    the two goroutines writing to one connection           *)
(*   SpecLimiter    the RateLimiter middleware                             *)
(*   SpecClient the useWebSocket hook                                      *)
(*   SpecStore  the dashboard's containerStore                             *)
(*   SpecRetry  retry() around an API request                              *)
(*                                                                         *)
(* uint64 counters are modelled with WordBits bits.  A float64 percentage  *)
(* is modelled by the exact rational it rounds, kept in lowest terms.      *)
(***************************************************************************)
EXTENDS Integers, Naturals, Sequences, FiniteSets, TLC

VARIABLES
    previousStats,  \* StatsCalculator.previousStats: containerID -> baseline
    lastCall,       \* the last StatsCalculator call, its lookup and its result
    lastMem,        \* the memory part of the last result (zero before any call)
    statsJSON,      \* the producer's decode target (var statsJSON)
    logFrames,      \* the frames the runtime sends on the log stream
    logOffset,      \* how many bytes of the log stream have been read
    logReads,       \* how many Read calls returned data
    logWritten,     \* the text messages written to the viewer, in order
    logPC,          \* where the LogsHandler read loop is
    producerPC,     \* the stats goroutine: "open", "select", "decode", "done"
    consumerPC,     \* the handler's main loop: "loop", "done"
    pingPC,         \* the ping goroutine: "loop", "done"
    ctxDone,        \* the connection's context is cancelled
    statsChan,      \* the buffered channel: results in flight, oldest first
    chanClosed,     \* close(statsChan) has run
    sinceSend,      \* now - lastSendTime in ticks, counted up to sendInterval
    results,        \* how many results CalculateStats has produced here
    dropped,        \* the results skipped with "buffer full", in order
    written,        \* the results written to the connection, in order
    closeSent,      \* the close message was written
    pingsSent,      \* how many pings were written
    connBroken,     \* a write on the connection failed: every later one fails
    lastGap,        \* ticks from the send before (or the producer's start) to
                    \* the last send, counted up to sendInterval
    writesInTick,   \* data messages written since time last moved, up to 2
    callPC,         \* shared calculator: each viewer "idle" or "inside" a call
    callArg,        \* shared calculator: the sample each viewer passed
    callPrev,       \* shared calculator: the baseline each viewer looked up
    kaKind,         \* keepalive: the handler, "stats", "logs" or "events"
    kaClock,        \* keepalive: seconds since the connection was upgraded
    kaDeadline,     \* keepalive: the read deadline set on the connection
    kaTicker,       \* keepalive: a ping goroutine is running on a ticker
    kaNextPing,     \* keepalive: when the ticker fires next
    kaPings,        \* keepalive: how many pings were written
    kaUnreadPongs,  \* keepalive: pongs that arrived and wait to be read
    kaOpen,         \* keepalive: the handler has not returned
    url,            \* useWebSocket: the url option of the last render
    mounted,        \* useWebSocket: the component is mounted
    status,         \* useWebSocket: the status state
    wsRef,          \* useWebSocket: wsRef.current, a socket id or 0 for null
    sockets,        \* the WebSocket objects whose events can still fire
    timers,         \* the pending setTimeout callbacks: the url each connects
    reconnectTimeoutRef,   \* reconnectTimeoutRef.current, a timer id or 0
    reconnectAttemptsRef,  \* reconnectAttemptsRef.current
    lastDelay,      \* the delay of the reconnect scheduled last, in ms
    sinceOpen,      \* reconnects scheduled since the last open event
    teardowns,      \* disconnect() calls in a row, counted up to 2
    stripData,      \* stripDockerHeader: the chunk passed in
    stripOffset,    \* stripDockerHeader: the loop's offset
    stripResult,    \* stripDockerHeader: the loop's result
    stripPC,        \* stripDockerHeader: "loop" or "done"
    metrics,        \* containerStore: state.metrics, containerId -> points
    pointsAdded,    \* how many points each container got since it was cleared
    maxMetricsPoints,  \* containerStore: MAX_METRICS_POINTS of the copy in use
    storeLast,      \* containerStore: the last action called and its containerId
    retryPC,        \* retry(): "calling", "waiting", "resolved", "rejected"
    retryMax,       \* retry(): opts.maxAttempts
    retryPred,      \* retry(): opts.retryable, "none" when it is not given
    retryAttempt,   \* retry(): the loop's attempt
    retryCalls,     \* how many times fn was invoked
    retryDelays,    \* the delays retry() has waited, in ms, in order
    retryError,     \* retry(): lastError, then what the promise rejects with
    retryReply,     \* what the last request got from the server
    wPing,          \* ping goroutine: "idle", "deadline" or "write"
    wData,          \* main loop: "idle", "deadline" or "write"
    wDeadline,      \* whose SetWriteDeadline the connection holds
    wPings,         \* ping writes begun on the connection
    wDatas,         \* data writes begun on the connection
    visitors,       \* RateLimiter.visitors: ip -> lastSeen, count
    rlClock,        \* RateLimiter: time.Now(), in minutes
    rlRate,         \* RateLimiter.rate
    rlDuration,     \* RateLimiter.duration, in minutes
    rlGrants,       \* the times at which Allow returned true, per ip
    rlMu            \* RateLimiter.mu: "free" or its holder

calcVars == <<previousStats, lastCall, lastMem, statsJSON>>

logVars == <<logFrames, logOffset, logReads, logWritten, logPC>>

pumpVars ==
    <<producerPC, consumerPC, pingPC, ctxDone, statsChan, chanClosed,
      sinceSend, results, dropped, written, closeSent, pingsSent, connBroken,
      lastGap, writesInTick>>

pumpTime == <<lastGap, writesInTick>>

sharedVars == <<callPC, callArg, callPrev>>

serverVars == <<calcVars, logVars, pumpVars, sharedVars>>

kaVars ==
    <<kaKind, kaClock, kaDeadline, kaTicker, kaNextPing, kaPings, kaUnreadPongs,
      kaOpen>>

clientVars ==
    <<url, mounted, status, wsRef, sockets, timers, reconnectTimeoutRef,
      reconnectAttemptsRef, lastDelay, sinceOpen, teardowns>>

stripVars == <<stripData, stripOffset, stripResult, stripPC>>

storeVars == <<metrics, pointsAdded, maxMetricsPoints, storeLast>>

retryVars ==
    <<retryPC, retryMax, retryPred, retryAttempt, retryCalls, retryDelays,
      retryError, retryReply>>

writeVars == <<wPing, wData, wDeadline, wPings, wDatas>>

limiterVars == <<visitors, rlClock, rlRate, rlDuration, rlGrants, rlMu>>

utilVars == <<storeVars, retryVars, writeVars, limiterVars>>

\* what the backend's handlers and calculator never touch
otherVars == <<kaVars, clientVars, stripVars, utilVars>>

-----------------------------------------------------------------------------
(* Values *)

WordBits == 2

Modulus == 2 ^ WordBits

U64 == 0 .. (Modulus - 1)

\* unsigned subtraction, wrapping
SubU64(a, b) == (a - b + Modulus) % Modulus

Containers == {"c1", "c2"}

\* the connections that watch the same container through the one calculator
Viewers == {"v1", "v2"}

\* JavaScript null
Null == "null"

\* no request was answered yet
NoReply == [kind |-> "none", status |-> 0, success |-> FALSE, timeoutText |-> FALSE]

\* lastError before any catch: undefined
NoError == [code |-> "", status |-> 0, timeoutText |-> FALSE, serverText |-> FALSE]

\* the client addresses the rate limiter sees
IPs == {"ip1", "ip2"}

MaxSockets == 2

MaxTimers == 2

SocketIds == 1 .. MaxSockets

TimerIds == 1 .. MaxTimers

\* a slot with no live WebSocket object in it
NoSocket == [state |-> "none", url |-> Null]

PercpuLens == {0, 4}

OnlineCPUsValues == {0, 2}

\* the CPU part of container.StatsResponse; a runtime that lists per-core
\* usage also reports its online-core count
Samples ==
    {s \in [cpu : U64, system : U64, percpu : PercpuLens, online : OnlineCPUsValues] :
        s.percpu = 0 \/ s.online # 0}

ZeroSample == [cpu |-> 0, system |-> 0, percpu |-> 0, online |-> 0]

\* the memory part of container.StatsResponse: MemoryStats.Usage, whether
\* MemoryStats.Stats has a "cache" entry and its value, MemoryStats.Limit
MemSamples ==
    {m \in [usage : U64, hasCache : BOOLEAN, cache : U64, limit : U64] :
        m.hasCache \/ m.cache = 0}

ZeroMem == [usage |-> 0, hasCache |-> FALSE, cache |-> 0, limit |-> 0]

NoStats == [ref |-> "nil"]

\* a *container.StatsResponse held by the map: either an object nobody else
\* writes ("own", its content in val) or the producer's statsJSON variable
OwnPtr(stats) == [ref |-> "own", val |-> stats]

AliasPtr == [ref |-> "statsJSON"]

Deref(ptr) == IF ptr.ref = "statsJSON" THEN statsJSON ELSE ptr.val

-----------------------------------------------------------------------------
(* Rationals in lowest terms *)

RECURSIVE GCD(_, _)
GCD(a, b) == IF b = 0 THEN a ELSE GCD(b, a % b)

Rat(n, d) == LET g == GCD(n, d) IN [num |-> n \div g, den |-> d \div g]

RatZero == [num |-> 0, den |-> 1]

RatInt(n) == [num |-> n, den |-> 1]

RatLess(p, q) == p.num * q.den < q.num * p.den

RatLeq(p, q) == p.num * q.den <= q.num * p.den

RatMin(p, q) == IF RatLess(q, p) THEN q ELSE p

-----------------------------------------------------------------------------
(* StatsCalculator *)

\* Get number of online CPUs
onlineCPUs(currStats) ==
    IF currStats.percpu # 0 THEN currStats.percpu
    ELSE IF currStats.online # 0 THEN currStats.online
    ELSE 1

\* Clamp to reasonable range (0-1000%)
clampPercent(p) ==
    IF RatLess(p, RatZero) THEN RatZero
    ELSE IF RatLess(RatInt(1000), p) THEN RatInt(1000)
    ELSE p

calculateCPUPercent_NoBackwardCheck(prevStats, currStats) ==
    LET deltaCPU    == SubU64(currStats.cpu, prevStats.cpu)
        deltaSystem == SubU64(currStats.system, prevStats.system)
    IN  IF deltaSystem = 0
        THEN RatZero
        ELSE clampPercent(Rat(deltaCPU * onlineCPUs(currStats) * 100, deltaSystem))

calculateCPUPercent_NoClamp(prevStats, currStats) ==
    LET deltaCPU    == SubU64(currStats.cpu, prevStats.cpu)
        deltaSystem == SubU64(currStats.system, prevStats.system)
    IN  IF deltaSystem = 0 \/ currStats.cpu < prevStats.cpu
        THEN RatZero
        ELSE Rat(deltaCPU * onlineCPUs(currStats) * 100, deltaSystem)

calculateCPUPercent_OnlineFirst(prevStats, currStats) ==
    LET deltaCPU    == SubU64(currStats.cpu, prevStats.cpu)
        deltaSystem == SubU64(currStats.system, prevStats.system)
        n == IF currStats.online # 0 THEN currStats.online
             ELSE IF currStats.percpu # 0 THEN currStats.percpu ELSE 1
    IN  IF deltaSystem = 0 \/ currStats.cpu < prevStats.cpu
        THEN RatZero
        ELSE clampPercent(Rat(deltaCPU * n * 100, deltaSystem))

calculateCPUPercent(prevStats, currStats) ==
    LET deltaCPU    == SubU64(currStats.cpu, prevStats.cpu)
        deltaSystem == SubU64(currStats.system, prevStats.system)
    IN  IF deltaSystem = 0 \/ currStats.cpu < prevStats.cpu
        THEN RatZero
        ELSE clampPercent(Rat(deltaCPU * onlineCPUs(currStats) * 100, deltaSystem))

cpuPercentOf_AlwaysCalculate(hasPrevious, prevStats, stats) ==
    calculateCPUPercent(prevStats, stats)

\* CalculateStats, "Calculate CPU percentage"
cpuPercentOf(hasPrevious, prevStats, stats) ==
    IF hasPrevious THEN calculateCPUPercent(prevStats, stats) ELSE RatZero

storePrevious_OnlyWhenCalculated(prev, containerID, ptr) ==
    IF prev[containerID] = NoStats \/ Deref(prev[containerID]).cpu <= Deref(ptr).cpu
    THEN [prev EXCEPT ![containerID] = ptr]
    ELSE prev

storePrevious_AllKeys(prev, containerID, ptr) ==
    [c \in Containers |-> ptr]

\* CalculateStats, "Store current stats for next calculation"
storePrevious(prev, containerID, ptr) ==
    [prev EXCEPT ![containerID] = ptr]

\* CalculateStats, "Calculate memory usage"
memoryPercentOf(mem) ==
    IF mem.limit > 0
    THEN LET cache == IF mem.hasCache THEN mem.cache ELSE 0
             rss   == SubU64(mem.usage, cache)
         IN  Rat(rss * 100, mem.limit)
    ELSE RatZero

\* MemoryUsage, MemoryLimit and MemoryPercent of the result
MemResult(mem) ==
    [mem           |-> mem,
     memoryUsage   |-> mem.usage,
     memoryLimit   |-> mem.limit,
     memoryPercent |-> memoryPercentOf(mem)]

deleteStats_Keep(prev, containerID) == prev

\* delete(sc.previousStats, containerID)
deleteStats(prev, containerID) == [prev EXCEPT ![containerID] = NoStats]

\* make(map[string]*container.StatsResponse)
emptyStats == [c \in Containers |-> NoStats]

\* what CalculateStats looked up and returned
\* prevStats is the object the map's pointer leads to when the call is made
\* (the zero value when there is none)
CallRecord(containerID, stats, hasPrevious, prevStats) ==
    [op          |-> "calc",
     id          |-> containerID,
     stats       |-> stats,
     hasPrevious |-> hasPrevious,
     prevCPU     |-> prevStats.cpu,
     prevSystem  |-> prevStats.system,
     cpuPercent  |-> cpuPercentOf(hasPrevious, prevStats, stats),
     err         |-> FALSE]

OtherCall(op, containerID) ==
    [op          |-> op,
     id          |-> containerID,
     stats       |-> ZeroSample,
     hasPrevious |-> FALSE,
     prevCPU     |-> 0,
     prevSystem  |-> 0,
     cpuPercent  |-> RatZero,
     err         |-> FALSE]

\* CalculateStats called with a sample object of the caller's own, CPU part
\* stats and memory part mem
CalculateStatsMem(containerID, stats, mem) ==
    /\ LET prevPtr == previousStats[containerID]
       IN  lastCall' = CallRecord(containerID, stats, prevPtr # NoStats,
                                  IF prevPtr # NoStats THEN Deref(prevPtr)
                                  ELSE ZeroSample)
    /\ lastMem' = MemResult(mem)
    /\ previousStats' = storePrevious(previousStats, containerID, OwnPtr(stats))
    /\ UNCHANGED <<otherVars, statsJSON, logVars, pumpVars, sharedVars>>

\* the same call for a sample that reports no memory
CalculateStats(containerID, stats) == CalculateStatsMem(containerID, stats, ZeroMem)

\* hasPrevious records whether there was a baseline to delete
ResetStats(containerID) ==
    /\ previousStats' = deleteStats(previousStats, containerID)
    /\ lastCall' = [OtherCall("reset", containerID)
                        EXCEPT !.hasPrevious = previousStats[containerID] # NoStats]
    /\ UNCHANGED <<otherVars, lastMem, statsJSON, logVars, pumpVars, sharedVars>>

ClearAllStats ==
    /\ previousStats' = emptyStats
    /\ lastCall' = [OtherCall("clear", "c1")
                        EXCEPT !.hasPrevious = previousStats # emptyStats]
    /\ UNCHANGED <<otherVars, lastMem, statsJSON, logVars, pumpVars, sharedVars>>

\* NewStatsCalculator; no connection is open
InitCalc ==
    /\ previousStats = [c \in Containers |-> NoStats]
    /\ lastCall = OtherCall("none", "c1")
    /\ lastMem = MemResult(ZeroMem)
    /\ statsJSON = ZeroSample
    /\ logFrames = << >>
    /\ logOffset = 0
    /\ logReads = 0
    /\ logWritten = << >>
    /\ logPC = "idle"
    /\ producerPC = "idle"
    /\ consumerPC = "idle"
    /\ pingPC = "idle"
    /\ ctxDone = FALSE
    /\ statsChan = << >>
    /\ chanClosed = FALSE
    /\ sinceSend = 0
    /\ results = 0
    /\ dropped = << >>
    /\ written = << >>
    /\ closeSent = FALSE
    /\ pingsSent = 0
    /\ connBroken = FALSE
    /\ lastGap = 0
    /\ writesInTick = 0
    /\ callPC = [v \in Viewers |-> "idle"]
    /\ callArg = [v \in Viewers |-> ZeroSample]
    /\ callPrev = [v \in Viewers |-> NoStats]
    /\ kaKind = "none"
    /\ kaClock = 0
    /\ kaDeadline = 0
    /\ kaTicker = FALSE
    /\ kaNextPing = 0
    /\ kaPings = 0
    /\ kaUnreadPongs = 0
    /\ kaOpen = FALSE
    /\ url = Null
    /\ mounted = FALSE
    /\ status = "disconnected"
    /\ wsRef = 0
    /\ sockets = [s \in SocketIds |-> NoSocket]
    /\ timers = [i \in TimerIds |-> Null]
    /\ reconnectTimeoutRef = 0
    /\ reconnectAttemptsRef = 0
    /\ lastDelay = 0
    /\ sinceOpen = 0
    /\ teardowns = 0
    /\ stripData = << >>
    /\ stripOffset = 0
    /\ stripResult = << >>
    /\ stripPC = "idle"
    /\ metrics = [c \in {} |-> << >>]
    /\ pointsAdded = [c \in Containers |-> 0]
    /\ maxMetricsPoints = 0
    /\ storeLast = <<"none", "none">>
    /\ retryPC = "idle"
    /\ retryMax = 0
    /\ retryPred = "none"
    /\ retryAttempt = 0
    /\ retryCalls = 0
    /\ retryDelays = << >>
    /\ retryError = NoError
    /\ retryReply = NoReply
    /\ wPing = "idle"
    /\ wData = "idle"
    /\ wDeadline = "none"
    /\ wPings = 0
    /\ wDatas = 0
    /\ visitors = [i \in {} |-> 0]
    /\ rlClock = 0
    /\ rlRate = 0
    /\ rlDuration = 0
    /\ rlGrants = [i \in IPs |-> << >>]
    /\ rlMu = "free"

DoCalculateStats == \E c \in Containers, s \in Samples : CalculateStats(c, s)

DoResetStats == \E c \in Containers : ResetStats(c)

NextCalc == DoCalculateStats \/ DoResetStats \/ ClearAllStats

vars == <<serverVars, otherVars>>

-----------------------------------------------------------------------------
(* LogsHandler and stripDockerHeader *)

HeaderLen == 8

BufferSize == 8192

MaxFrames == 2

MaxPayload == 1

MaxReads == 3

StreamTypes == {1}

PayloadBytes == {65}

Min(a, b) == IF a < b THEN a ELSE b

\* data[from:] and data[from:to] of Go, offsets counted from 0
SliceFrom(data, from) == SubSeq(data, from + 1, Len(data))

Slice(data, from, to) == SubSeq(data, from + 1, to)

\* binary.BigEndian.Uint32
BigEndianUint32(b) == ((b[1] * 256 + b[2]) * 256 + b[3]) * 256 + b[4]

\* binary.BigEndian.PutUint32, as the runtime writes the length field
PutUint32(n) ==
    << (n \div 16777216) % 256, (n \div 65536) % 256, (n \div 256) % 256, n % 256 >>

\* the for loop of stripDockerHeader
RECURSIVE stripLoop(_, _, _)
stripLoop(data, offset, result) ==
    IF ~(offset < Len(data)) THEN result
    ELSE IF offset + HeaderLen > Len(data)
    THEN result \o SliceFrom(data, offset)
    ELSE LET size == BigEndianUint32(Slice(data, offset + 4, offset + 8))
         IN  IF offset + HeaderLen + size > Len(data)
             THEN result \o SliceFrom(data, offset + HeaderLen)
             ELSE stripLoop(data, offset + HeaderLen + size,
                            result \o Slice(data, offset + HeaderLen,
                                            offset + HeaderLen + size))

stripDockerHeader_ShortIncl(data) ==
    IF Len(data) <= HeaderLen THEN data ELSE stripLoop(data, 0, << >>)

stripDockerHeader(data) ==
    IF Len(data) < HeaderLen THEN data ELSE stripLoop(data, 0, << >>)

\* one frame on the wire: tag, three reserved bytes, length, payload
EncodeFrame(f) == <<f.tag, 0, 0, 0>> \o PutUint32(Len(f.payload)) \o f.payload

RECURSIVE EncodeFrames(_)
EncodeFrames(fs) ==
    IF fs = << >> THEN << >> ELSE EncodeFrame(Head(fs)) \o EncodeFrames(Tail(fs))

RECURSIVE Flatten(_)
Flatten(ss) == IF ss = << >> THEN << >> ELSE Head(ss) \o Flatten(Tail(ss))

SeqsUpTo(S, n) == UNION {[1 .. k -> S] : k \in 0 .. n}

Frames == [tag : StreamTypes, payload : SeqsUpTo(PayloadBytes, MaxPayload)]

\* the bytes the runtime's log stream yields
logStream == EncodeFrames(logFrames)

LogsRemaining == Len(logStream) - logOffset

\* logsReader.Read returns n bytes; they are stripped and, when any are left,
\* written as one text message
LogsRead(n) ==
    /\ logPC = "reading"
    /\ logReads < MaxReads
    /\ n >= 1 /\ n <= Min(LogsRemaining, BufferSize)
    /\ LET data == Slice(logStream, logOffset, logOffset + n)
           processedData == stripDockerHeader(data)
       IN  logWritten' = IF Len(processedData) > 0
                         THEN Append(logWritten, processedData)
                         ELSE logWritten
    /\ logOffset' = logOffset + n
    /\ logReads' = logReads + 1
    /\ UNCHANGED <<otherVars, calcVars, pumpVars, sharedVars, logFrames, logPC>>

\* the same read, but conn.WriteMessage fails
LogsWriteFails(n) ==
    /\ logPC = "reading"
    /\ logReads < MaxReads
    /\ n >= 1 /\ n <= Min(LogsRemaining, BufferSize)
    /\ Len(stripDockerHeader(Slice(logStream, logOffset, logOffset + n))) > 0
    /\ logOffset' = logOffset + n
    /\ logReads' = logReads + 1
    /\ logPC' = "failed"
    /\ UNCHANGED <<otherVars, calcVars, pumpVars, sharedVars, logFrames, logWritten>>

\* Read returns io.EOF
LogsEOF ==
    /\ logPC = "reading"
    /\ LogsRemaining = 0
    /\ logPC' = "eof"
    /\ UNCHANGED <<otherVars, calcVars, pumpVars, sharedVars, logFrames, logOffset,
                   logReads, logWritten>>

\* Read returns another error
LogsReadError ==
    /\ logPC = "reading"
    /\ logPC' = "failed"
    /\ UNCHANGED <<otherVars, calcVars, pumpVars, sharedVars, logFrames, logOffset,
                   logReads, logWritten>>

\* case <-ctx.Done()
LogsCancelled ==
    /\ logPC = "reading"
    /\ logPC' = "cancelled"
    /\ UNCHANGED <<otherVars, calcVars, pumpVars, sharedVars, logFrames, logOffset,
                   logReads, logWritten>>

\* the log stream is open and the read loop starts
InitLogs ==
    /\ logFrames \in SeqsUpTo(Frames, MaxFrames)
    /\ logOffset = 0
    /\ logReads = 0
    /\ logWritten = << >>
    /\ logPC = "reading"
    /\ previousStats = [c \in Containers |-> NoStats]
    /\ lastCall = OtherCall("none", "c1")
    /\ lastMem = MemResult(ZeroMem)
    /\ statsJSON = ZeroSample
    /\ producerPC = "idle"
    /\ consumerPC = "idle"
    /\ pingPC = "idle"
    /\ ctxDone = FALSE
    /\ statsChan = << >>
    /\ chanClosed = FALSE
    /\ sinceSend = 0
    /\ results = 0
    /\ dropped = << >>
    /\ written = << >>
    /\ closeSent = FALSE
    /\ pingsSent = 0
    /\ connBroken = FALSE
    /\ lastGap = 0
    /\ writesInTick = 0
    /\ callPC = [v \in Viewers |-> "idle"]
    /\ callArg = [v \in Viewers |-> ZeroSample]
    /\ callPrev = [v \in Viewers |-> NoStats]
    /\ kaKind = "none"
    /\ kaClock = 0
    /\ kaDeadline = 0
    /\ kaTicker = FALSE
    /\ kaNextPing = 0
    /\ kaPings = 0
    /\ kaUnreadPongs = 0
    /\ kaOpen = FALSE
    /\ url = Null
    /\ mounted = FALSE
    /\ status = "disconnected"
    /\ wsRef = 0
    /\ sockets = [s \in SocketIds |-> NoSocket]
    /\ timers = [i \in TimerIds |-> Null]
    /\ reconnectTimeoutRef = 0
    /\ reconnectAttemptsRef = 0
    /\ lastDelay = 0
    /\ sinceOpen = 0
    /\ teardowns = 0
    /\ stripData = << >>
    /\ stripOffset = 0
    /\ stripResult = << >>
    /\ stripPC = "idle"
    /\ metrics = [c \in {} |-> << >>]
    /\ pointsAdded = [c \in Containers |-> 0]
    /\ maxMetricsPoints = 0
    /\ storeLast = <<"none", "none">>
    /\ retryPC = "idle"
    /\ retryMax = 0
    /\ retryPred = "none"
    /\ retryAttempt = 0
    /\ retryCalls = 0
    /\ retryDelays = << >>
    /\ retryError = NoError
    /\ retryReply = NoReply
    /\ wPing = "idle"
    /\ wData = "idle"
    /\ wDeadline = "none"
    /\ wPings = 0
    /\ wDatas = 0
    /\ visitors = [i \in {} |-> 0]
    /\ rlClock = 0
    /\ rlRate = 0
    /\ rlDuration = 0
    /\ rlGrants = [i \in IPs |-> << >>]
    /\ rlMu = "free"

DoLogsRead == \E n \in 1 .. Len(logStream) : LogsRead(n)

DoLogsWriteFails == \E n \in 1 .. Len(logStream) : LogsWriteFails(n)

NextLogs ==
    DoLogsRead \/ DoLogsWriteFails \/ LogsEOF \/ LogsReadError \/ LogsCancelled

-----------------------------------------------------------------------------
(* stripDockerHeader, one loop iteration at a time *)

\* int(size): Go's int on a 64-bit build holds every uint32
toInt(size) == size

\* the length fields tried: 0, 1 and one far beyond any chunk (2^30)
LengthFields == {<<0, 0, 0, 0>>, <<0, 0, 0, 1>>, <<64, 0, 0, 0>>}

\* a header with any of these length fields, followed by any body
Segments ==
    {<<1, 0, 0, 0>> \o l \o b :
        l \in LengthFields, b \in SeqsUpTo(PayloadBytes, MaxPayload)}

\* what follows the last header: fewer bytes than a header
Tails == SeqsUpTo(PayloadBytes, HeaderLen - 1)

\* the chunks passed in: well-formed, truncated and malformed ones
StripChunks ==
    {Flatten(ss) \o tl : ss \in SeqsUpTo(Segments, MaxFrames), tl \in Tails}

stripAdvance_HalfHeader(offset, size) == offset + 4 + toInt(size)

\* offset += 8 + int(size)
stripAdvance(offset, size) == offset + HeaderLen + toInt(size)

\* if len(data) < 8 { return data }
StripShort ==
    /\ stripPC = "start"
    /\ Len(stripData) < HeaderLen
    /\ stripResult' = stripData
    /\ stripPC' = "done"
    /\ UNCHANGED <<serverVars, utilVars, kaVars, clientVars, stripData, stripOffset>>

\* result := make([]byte, 0, len(data)); offset := 0
StripBegin ==
    /\ stripPC = "start"
    /\ ~(Len(stripData) < HeaderLen)
    /\ stripResult' = << >>
    /\ stripOffset' = 0
    /\ stripPC' = "loop"
    /\ UNCHANGED <<serverVars, utilVars, kaVars, clientVars, stripData>>

\* the loop condition and one pass through the loop body
StripIter ==
    /\ stripPC = "loop"
    /\ IF ~(stripOffset < Len(stripData))
       THEN /\ stripPC' = "done"
            /\ UNCHANGED <<stripOffset, stripResult>>
       ELSE IF stripOffset + HeaderLen > Len(stripData)
       THEN /\ stripResult' = stripResult \o SliceFrom(stripData, stripOffset)
            /\ stripPC' = "done"
            /\ UNCHANGED stripOffset
       ELSE LET size == BigEndianUint32(Slice(stripData, stripOffset + 4,
                                              stripOffset + 8))
            IN  IF stripOffset + HeaderLen + toInt(size) > Len(stripData)
                THEN /\ stripResult' =
                          stripResult \o SliceFrom(stripData, stripOffset + HeaderLen)
                     /\ stripPC' = "done"
                     /\ UNCHANGED stripOffset
                ELSE /\ stripResult' =
                          stripResult \o Slice(stripData, stripOffset + HeaderLen,
                                               stripOffset + HeaderLen + toInt(size))
                     /\ stripOffset' = stripAdvance(stripOffset, size)
                     /\ UNCHANGED stripPC
    /\ UNCHANGED <<serverVars, utilVars, kaVars, clientVars, stripData>>

\* stripDockerHeader is called with a chunk
InitStrip ==
    /\ previousStats = [c \in Containers |-> NoStats]
    /\ lastCall = OtherCall("none", "c1")
    /\ lastMem = MemResult(ZeroMem)
    /\ statsJSON = ZeroSample
    /\ logFrames = << >>
    /\ logOffset = 0
    /\ logReads = 0
    /\ logWritten = << >>
    /\ logPC = "idle"
    /\ producerPC = "idle"
    /\ consumerPC = "idle"
    /\ pingPC = "idle"
    /\ ctxDone = FALSE
    /\ statsChan = << >>
    /\ chanClosed = FALSE
    /\ sinceSend = 0
    /\ results = 0
    /\ dropped = << >>
    /\ written = << >>
    /\ closeSent = FALSE
    /\ pingsSent = 0
    /\ connBroken = FALSE
    /\ lastGap = 0
    /\ writesInTick = 0
    /\ callPC = [v \in Viewers |-> "idle"]
    /\ callArg = [v \in Viewers |-> ZeroSample]
    /\ callPrev = [v \in Viewers |-> NoStats]
    /\ kaKind = "none"
    /\ kaClock = 0
    /\ kaDeadline = 0
    /\ kaTicker = FALSE
    /\ kaNextPing = 0
    /\ kaPings = 0
    /\ kaUnreadPongs = 0
    /\ kaOpen = FALSE
    /\ url = Null
    /\ mounted = FALSE
    /\ status = "disconnected"
    /\ wsRef = 0
    /\ sockets = [s \in SocketIds |-> NoSocket]
    /\ timers = [i \in TimerIds |-> Null]
    /\ reconnectTimeoutRef = 0
    /\ reconnectAttemptsRef = 0
    /\ lastDelay = 0
    /\ sinceOpen = 0
    /\ teardowns = 0
    /\ stripData \in StripChunks
    /\ stripOffset = 0
    /\ stripResult = << >>
    /\ stripPC = "start"
    /\ metrics = [c \in {} |-> << >>]
    /\ pointsAdded = [c \in Containers |-> 0]
    /\ maxMetricsPoints = 0
    /\ storeLast = <<"none", "none">>
    /\ retryPC = "idle"
    /\ retryMax = 0
    /\ retryPred = "none"
    /\ retryAttempt = 0
    /\ retryCalls = 0
    /\ retryDelays = << >>
    /\ retryError = NoError
    /\ retryReply = NoReply
    /\ wPing = "idle"
    /\ wData = "idle"
    /\ wDeadline = "none"
    /\ wPings = 0
    /\ wDatas = 0
    /\ visitors = [i \in {} |-> 0]
    /\ rlClock = 0
    /\ rlRate = 0
    /\ rlDuration = 0
    /\ rlGrants = [i \in IPs |-> << >>]
    /\ rlMu = "free"

NextStrip == StripShort \/ StripBegin \/ StripIter

-----------------------------------------------------------------------------
(* StatsHandler: producer goroutine, ping goroutine, main loop *)

QueueCap == 100

TicksPerSecond == 2

sendInterval == 1 * TicksPerSecond

MaxResults == 103

MaxWrites == 2

MaxPings == 1

\* c.Param("id")
connID == "c1"

\* the samples the runtime's stats stream can yield
StreamSamples ==
    {[cpu |-> 1, system |-> 1, percpu |-> 4, online |-> 2],
     [cpu |-> 2, system |-> 3, percpu |-> 4, online |-> 2]}

trySend_Unbounded(ch, x) == Append(ch, x)

trySend_DropOldest(ch, x) ==
    IF Len(ch) < QueueCap THEN Append(ch, x) ELSE Append(Tail(ch), x)

\* select { case statsChan <- calculatedStats: ... default: ... }
trySend(ch, x) == IF Len(ch) < QueueCap THEN Append(ch, x) ELSE ch

chanRecv_Newest(ch) == [val |-> ch[Len(ch)], rest |-> SubSeq(ch, 1, Len(ch) - 1)]

\* stats, ok := <-statsChan with a result buffered
chanRecv(ch) == [val |-> Head(ch), rest |-> Tail(ch)]

\* cancel(): the context is done, whether or not it was before
cancelCtx(done) == TRUE

\* the handler returns: the deferred cancel() and conn.Close() run
HandlerReturns ==
    /\ consumerPC' = "done"
    /\ ctxDone' = cancelCtx(ctxDone)

ProducerReturns_NoClose ==
    /\ producerPC' = "done"
    /\ chanClosed' = chanClosed

ProducerReturns_Reopen ==
    /\ producerPC' = "open"
    /\ chanClosed' = TRUE

\* the goroutine returns: the deferred close(statsChan) runs
ProducerReturns ==
    /\ producerPC' = "done"
    /\ chanClosed' = TRUE

\* dockerClient.ContainerStats(ctx, containerID, true) succeeds
ProducerOpen ==
    /\ producerPC = "open"
    /\ producerPC' = "select"
    /\ sinceSend' = 0
    /\ UNCHANGED <<otherVars, logVars, sharedVars, connBroken, pumpTime, consumerPC,
                   pingPC, ctxDone, statsChan, chanClosed, results, dropped,
                   written, closeSent, pingsSent, calcVars>>

\* ... or fails
ProducerOpenFails ==
    /\ producerPC = "open"
    /\ ProducerReturns
    /\ UNCHANGED <<otherVars, logVars, sharedVars, connBroken, pumpTime, consumerPC,
                   pingPC, ctxDone, statsChan, sinceSend, results, dropped,
                   written, closeSent, pingsSent, calcVars>>

\* select: case <-ctx.Done()
ProducerCancelled ==
    /\ producerPC = "select"
    /\ ctxDone
    /\ ProducerReturns
    /\ UNCHANGED <<otherVars, logVars, sharedVars, connBroken, pumpTime, consumerPC,
                   pingPC, ctxDone, statsChan, sinceSend, results, dropped,
                   written, closeSent, pingsSent, calcVars>>

\* select: default
ProducerDefault ==
    /\ producerPC = "select"
    /\ ~ctxDone
    /\ producerPC' = "decode"
    /\ UNCHANGED <<otherVars, logVars, sharedVars, connBroken, pumpTime, consumerPC,
                   pingPC, ctxDone, statsChan, chanClosed, sinceSend, results,
                   dropped, written, closeSent, pingsSent, calcVars>>

\* decoder.Decode fails: EOF, a malformed object, or the cancelled request
ProducerDecodeFails ==
    /\ producerPC = "decode"
    /\ ProducerReturns
    /\ UNCHANGED <<otherVars, logVars, sharedVars, connBroken, pumpTime, consumerPC,
                   pingPC, ctxDone, statsChan, sinceSend, results, dropped,
                   written, closeSent, pingsSent, calcVars>>

throttlePassed_Always(elapsed) == TRUE

\* if now.Sub(lastSendTime) >= sendInterval
throttlePassed(elapsed) == elapsed >= sendInterval

\* Decode fills statsJSON d ticks after the previous Decode (time moves on
\* between two samples), less than sendInterval after the last send: nothing
\* is calculated
ProducerThrottled(stats, d) ==
    /\ producerPC = "decode"
    /\ ~throttlePassed(sinceSend + d)
    /\ statsJSON' = stats
    /\ sinceSend' = sinceSend + d
    /\ writesInTick' = 0
    /\ producerPC' = "select"
    /\ UNCHANGED <<otherVars, logVars, sharedVars, connBroken, lastGap, consumerPC,
                   pingPC, ctxDone, statsChan, chanClosed, results, dropped,
                   written, closeSent, pingsSent, previousStats, lastCall,
                   lastMem>>

\* Decode fills statsJSON, the interval has passed: CalculateStats(containerID,
\* &statsJSON), then the non-blocking send
ProducerAccept(stats, d) ==
    /\ producerPC = "decode"
    /\ throttlePassed(sinceSend + d)
    /\ results < MaxResults
    /\ statsJSON' = stats
    /\ LET prevPtr == previousStats[connID]
           \* the baseline is read after Decode has written statsJSON
           prevStats == IF prevPtr = NoStats THEN ZeroSample
                        ELSE IF prevPtr.ref = "statsJSON" THEN stats
                        ELSE prevPtr.val
       IN  lastCall' = CallRecord(connID, stats, prevPtr # NoStats, prevStats)
    /\ lastMem' = MemResult(ZeroMem)
    /\ previousStats' = storePrevious(previousStats, connID, AliasPtr)
    /\ results' = results + 1
    /\ statsChan' = trySend(statsChan, results + 1)
    /\ IF Len(statsChan) < QueueCap
       THEN /\ sinceSend' = 0
            /\ lastGap' = Min(sinceSend + d, sendInterval)
            /\ dropped' = dropped
       ELSE /\ sinceSend' = sendInterval
            /\ lastGap' = lastGap
            /\ dropped' = Append(dropped, results + 1)
    /\ writesInTick' = 0
    /\ producerPC' = "select"
    /\ UNCHANGED <<otherVars, logVars, sharedVars, connBroken, consumerPC, pingPC,
                   ctxDone, chanClosed, written, closeSent, pingsSent>>

\* pingTicker.C fires: the ping is written
PingTick ==
    /\ pingPC = "loop"
    /\ ~connBroken
    /\ pingsSent < MaxPings
    /\ pingsSent' = pingsSent + 1
    /\ UNCHANGED <<otherVars, logVars, sharedVars, connBroken, pumpTime, producerPC,
                   consumerPC, pingPC, ctxDone, statsChan, chanClosed,
                   sinceSend, results, dropped, written, closeSent, calcVars>>

\* pingTicker.C fires and the write fails: the goroutine returns
PingWriteFails ==
    /\ pingPC = "loop"
    /\ pingPC' = "done"
    /\ connBroken' = TRUE
    /\ UNCHANGED <<otherVars, logVars, sharedVars, pumpTime, producerPC, consumerPC,
                   ctxDone, statsChan, chanClosed, sinceSend, results, dropped,
                   written, closeSent, pingsSent, calcVars>>

\* case <-ctx.Done(): the goroutine returns
PingCancelled ==
    /\ pingPC = "loop"
    /\ ctxDone
    /\ pingPC' = "done"
    /\ UNCHANGED <<otherVars, logVars, sharedVars, connBroken, pumpTime, producerPC,
                   consumerPC, ctxDone, statsChan, chanClosed, sinceSend,
                   results, dropped, written, closeSent, pingsSent, calcVars>>

\* main loop: a result is received and conn.WriteJSON succeeds
ConsumerWrite ==
    /\ consumerPC = "loop"
    /\ Len(statsChan) > 0
    /\ ~connBroken
    /\ Len(written) < MaxWrites
    /\ statsChan' = chanRecv(statsChan).rest
    /\ written' = Append(written, chanRecv(statsChan).val)
    /\ writesInTick' = Min(writesInTick + 1, 2)
    /\ UNCHANGED <<otherVars, logVars, sharedVars, connBroken, lastGap, producerPC,
                   consumerPC, pingPC, ctxDone, chanClosed, sinceSend, results,
                   dropped, closeSent, pingsSent, calcVars>>

\* main loop: a result is received and conn.WriteJSON fails
ConsumerWriteFails ==
    /\ consumerPC = "loop"
    /\ Len(statsChan) > 0
    /\ statsChan' = chanRecv(statsChan).rest
    /\ connBroken' = TRUE
    /\ HandlerReturns
    /\ UNCHANGED <<otherVars, logVars, sharedVars, pumpTime, producerPC, pingPC,
                   chanClosed, sinceSend, results, dropped, written, closeSent,
                   pingsSent, calcVars>>

recvNotOk_Early(ch, closed) == closed

\* stats, ok := <-statsChan yields ok = false: the channel is closed and
\* every buffered result was received
recvNotOk(ch, closed) == closed /\ Len(ch) = 0

\* main loop: the channel is closed and drained; the close message is written
\* (the write's error is not looked at)
ConsumerClosed ==
    /\ consumerPC = "loop"
    /\ recvNotOk(statsChan, chanClosed)
    /\ closeSent' = ~connBroken
    /\ HandlerReturns
    /\ UNCHANGED <<otherVars, logVars, sharedVars, connBroken, pumpTime, producerPC,
                   pingPC, statsChan, chanClosed, sinceSend, results, dropped,
                   written, pingsSent, calcVars>>

\* main loop: case <-ctx.Done()
ConsumerCancelled ==
    /\ consumerPC = "loop"
    /\ ctxDone
    /\ HandlerReturns
    /\ UNCHANGED <<otherVars, logVars, sharedVars, connBroken, pumpTime, producerPC,
                   pingPC, statsChan, chanClosed, sinceSend, results, dropped,
                   written, closeSent, pingsSent, calcVars>>

\* the request's context is cancelled from outside
ExternalCancel ==
    /\ ~ctxDone
    /\ ctxDone' = TRUE
    /\ UNCHANGED <<otherVars, logVars, sharedVars, connBroken, pumpTime, producerPC,
                   consumerPC, pingPC, statsChan, chanClosed, sinceSend,
                   results, dropped, written, closeSent, pingsSent, calcVars>>

\* the connection is upgraded, the channel made, the goroutines started
InitPump ==
    /\ producerPC = "open"
    /\ consumerPC = "loop"
    /\ pingPC = "loop"
    /\ ctxDone = FALSE
    /\ statsChan = << >>
    /\ chanClosed = FALSE
    /\ sinceSend = 0
    /\ results = 0
    /\ dropped = << >>
    /\ written = << >>
    /\ closeSent = FALSE
    /\ pingsSent = 0
    /\ connBroken = FALSE
    /\ lastGap = 0
    /\ writesInTick = 0
    /\ callPC = [v \in Viewers |-> "idle"]
    /\ callArg = [v \in Viewers |-> ZeroSample]
    /\ callPrev = [v \in Viewers |-> NoStats]
    /\ kaKind = "none"
    /\ kaClock = 0
    /\ kaDeadline = 0
    /\ kaTicker = FALSE
    /\ kaNextPing = 0
    /\ kaPings = 0
    /\ kaUnreadPongs = 0
    /\ kaOpen = FALSE
    /\ url = Null
    /\ mounted = FALSE
    /\ status = "disconnected"
    /\ wsRef = 0
    /\ sockets = [s \in SocketIds |-> NoSocket]
    /\ timers = [i \in TimerIds |-> Null]
    /\ reconnectTimeoutRef = 0
    /\ reconnectAttemptsRef = 0
    /\ lastDelay = 0
    /\ sinceOpen = 0
    /\ teardowns = 0
    /\ stripData = << >>
    /\ stripOffset = 0
    /\ stripResult = << >>
    /\ stripPC = "idle"
    /\ previousStats = [c \in Containers |-> NoStats]
    /\ lastCall = OtherCall("none", "c1")
    /\ lastMem = MemResult(ZeroMem)
    /\ statsJSON = ZeroSample
    /\ logFrames = << >>
    /\ logOffset = 0
    /\ logReads = 0
    /\ logWritten = << >>
    /\ logPC = "idle"
    /\ metrics = [c \in {} |-> << >>]
    /\ pointsAdded = [c \in Containers |-> 0]
    /\ maxMetricsPoints = 0
    /\ storeLast = <<"none", "none">>
    /\ retryPC = "idle"
    /\ retryMax = 0
    /\ retryPred = "none"
    /\ retryAttempt = 0
    /\ retryCalls = 0
    /\ retryDelays = << >>
    /\ retryError = NoError
    /\ retryReply = NoReply
    /\ wPing = "idle"
    /\ wData = "idle"
    /\ wDeadline = "none"
    /\ wPings = 0
    /\ wDatas = 0
    /\ visitors = [i \in {} |-> 0]
    /\ rlClock = 0
    /\ rlRate = 0
    /\ rlDuration = 0
    /\ rlGrants = [i \in IPs |-> << >>]
    /\ rlMu = "free"

DoProducerThrottled ==
    \E s \in StreamSamples, d \in 1 .. TicksPerSecond : ProducerThrottled(s, d)

DoProducerAccept ==
    \E s \in StreamSamples, d \in 1 .. TicksPerSecond : ProducerAccept(s, d)

NextPump ==
    \/ ProducerOpen
    \/ ProducerOpenFails
    \/ ProducerCancelled
    \/ ProducerDefault
    \/ ProducerDecodeFails
    \/ DoProducerThrottled
    \/ DoProducerAccept
    \/ PingTick
    \/ PingWriteFails
    \/ PingCancelled
    \/ ConsumerWrite
    \/ ConsumerWriteFails
    \/ ConsumerClosed
    \/ ConsumerCancelled
    \/ ExternalCancel

\* what the main loop does when one of its select cases is ready
ConsumerStep ==
    ConsumerWrite \/ ConsumerWriteFails \/ ConsumerClosed \/ ConsumerCancelled

-----------------------------------------------------------------------------
(* The one StatsCalculator of main.go, called by several connections *)

\* CalculateStats of viewer v up to and including the map lookup
SharedLookup(v, stats) ==
    /\ callPC[v] = "idle"
    /\ callPC' = [callPC EXCEPT ![v] = "inside"]
    /\ callArg' = [callArg EXCEPT ![v] = stats]
    /\ callPrev' = [callPrev EXCEPT ![v] = previousStats[connID]]
    /\ UNCHANGED <<otherVars, calcVars, logVars, pumpVars>>

\* the rest of the call: the percentages from what was looked up, the map
\* store, the return
SharedStore(v) ==
    /\ callPC[v] = "inside"
    /\ lastCall' = CallRecord(connID, callArg[v], callPrev[v] # NoStats,
                              IF callPrev[v] # NoStats THEN Deref(callPrev[v])
                              ELSE ZeroSample)
    /\ lastMem' = MemResult(ZeroMem)
    /\ previousStats' = storePrevious(previousStats, connID, OwnPtr(callArg[v]))
    /\ callPC' = [callPC EXCEPT ![v] = "idle"]
    /\ callArg' = [callArg EXCEPT ![v] = ZeroSample]
    /\ callPrev' = [callPrev EXCEPT ![v] = NoStats]
    /\ UNCHANGED <<otherVars, statsJSON, logVars, pumpVars>>

\* the map store runs while another viewer's map access does: the runtime
\* may stop the process ("concurrent map writes")
SharedFatal(v) ==
    /\ callPC[v] = "inside"
    /\ \E w \in Viewers \ {v} : callPC[w] = "inside"
    /\ callPC' = [w \in Viewers |-> "crashed"]
    /\ UNCHANGED <<otherVars, calcVars, logVars, pumpVars, callArg, callPrev>>

DoSharedLookup == \E v \in Viewers, s \in StreamSamples : SharedLookup(v, s)

DoSharedStore == \E v \in Viewers : SharedStore(v)

DoSharedFatal == \E v \in Viewers : SharedFatal(v)

NextShared == DoSharedLookup \/ DoSharedStore \/ DoSharedFatal

\* samples with a memory part
DoCalculateStatsMem ==
    \E c \in Containers, s \in StreamSamples, m \in MemSamples :
        CalculateStatsMem(c, s, m)

NextMem == DoCalculateStatsMem \/ DoResetStats

-----------------------------------------------------------------------------
(* Keepalive of a streaming connection: read deadline, pong handler, pings *)

\* seconds
pongWait == 60

pingPeriod == (pongWait * 9) \div 10

\* the clock moves in steps of TimeStep seconds, up to MaxClock
TimeStep == 6

MaxClock == 120

HandlerKinds == {"stats", "logs", "events"}

\* the handlers that start a ping goroutine on a ticker
PingingKinds == {"stats", "events"}

\* time passes; a tick that is due is taken first.  No handler ever reads
\* from the connection, so a read deadline that passes ends nothing.
KaTick ==
    /\ kaOpen
    /\ kaClock + TimeStep <= MaxClock
    /\ kaTicker => kaClock < kaNextPing
    /\ kaClock' = kaClock + TimeStep
    /\ UNCHANGED <<serverVars, utilVars, clientVars, stripVars, kaKind, kaDeadline,
                   kaTicker, kaNextPing, kaPings, kaUnreadPongs, kaOpen>>

\* case <-pingTicker.C: the ping is written
KaPing ==
    /\ kaOpen
    /\ kaTicker
    /\ kaClock >= kaNextPing
    /\ kaPings' = kaPings + 1
    /\ kaNextPing' = kaNextPing + pingPeriod
    /\ UNCHANGED <<serverVars, utilVars, clientVars, stripVars, kaKind, kaClock,
                   kaDeadline, kaTicker, kaUnreadPongs, kaOpen>>

\* case <-pingTicker.C: the write fails and the ping goroutine returns
KaPingFails ==
    /\ kaOpen
    /\ kaTicker
    /\ kaClock >= kaNextPing
    /\ kaTicker' = FALSE
    /\ UNCHANGED <<serverVars, utilVars, clientVars, stripVars, kaKind, kaClock,
                   kaDeadline, kaNextPing, kaPings, kaUnreadPongs, kaOpen>>

\* the viewer answers a ping.  The pong handler runs inside a read call, and
\* there is none: the pong stays in the socket and the deadline where it was.
KaPong ==
    /\ kaOpen
    /\ kaUnreadPongs < kaPings
    /\ kaUnreadPongs' = kaUnreadPongs + 1
    /\ UNCHANGED <<serverVars, utilVars, clientVars, stripVars, kaKind, kaClock,
                   kaDeadline, kaTicker, kaNextPing, kaPings, kaOpen>>

\* the handler returns: its stream ended, a data write failed, or the
\* request was cancelled
KaEnds ==
    /\ kaOpen
    /\ kaOpen' = FALSE
    /\ UNCHANGED <<serverVars, utilVars, clientVars, stripVars, kaKind, kaClock,
                   kaDeadline, kaTicker, kaNextPing, kaPings, kaUnreadPongs>>

\* the connection is upgraded: SetReadDeadline, SetPongHandler and, in the
\* stats and events handlers, the ping goroutine
InitKeepalive ==
    /\ previousStats = [c \in Containers |-> NoStats]
    /\ lastCall = OtherCall("none", "c1")
    /\ lastMem = MemResult(ZeroMem)
    /\ statsJSON = ZeroSample
    /\ logFrames = << >>
    /\ logOffset = 0
    /\ logReads = 0
    /\ logWritten = << >>
    /\ logPC = "idle"
    /\ producerPC = "idle"
    /\ consumerPC = "idle"
    /\ pingPC = "idle"
    /\ ctxDone = FALSE
    /\ statsChan = << >>
    /\ chanClosed = FALSE
    /\ sinceSend = 0
    /\ results = 0
    /\ dropped = << >>
    /\ written = << >>
    /\ closeSent = FALSE
    /\ pingsSent = 0
    /\ connBroken = FALSE
    /\ lastGap = 0
    /\ writesInTick = 0
    /\ callPC = [v \in Viewers |-> "idle"]
    /\ callArg = [v \in Viewers |-> ZeroSample]
    /\ callPrev = [v \in Viewers |-> NoStats]
    /\ kaKind \in HandlerKinds
    /\ kaClock = 0
    /\ kaDeadline = pongWait
    /\ kaTicker = (kaKind \in PingingKinds)
    /\ kaNextPing = pingPeriod
    /\ kaPings = 0
    /\ kaUnreadPongs = 0
    /\ kaOpen = TRUE
    /\ url = Null
    /\ mounted = FALSE
    /\ status = "disconnected"
    /\ wsRef = 0
    /\ sockets = [s \in SocketIds |-> NoSocket]
    /\ timers = [i \in TimerIds |-> Null]
    /\ reconnectTimeoutRef = 0
    /\ reconnectAttemptsRef = 0
    /\ lastDelay = 0
    /\ sinceOpen = 0
    /\ teardowns = 0
    /\ stripData = << >>
    /\ stripOffset = 0
    /\ stripResult = << >>
    /\ stripPC = "idle"
    /\ metrics = [c \in {} |-> << >>]
    /\ pointsAdded = [c \in Containers |-> 0]
    /\ maxMetricsPoints = 0
    /\ storeLast = <<"none", "none">>
    /\ retryPC = "idle"
    /\ retryMax = 0
    /\ retryPred = "none"
    /\ retryAttempt = 0
    /\ retryCalls = 0
    /\ retryDelays = << >>
    /\ retryError = NoError
    /\ retryReply = NoReply
    /\ wPing = "idle"
    /\ wData = "idle"
    /\ wDeadline = "none"
    /\ wPings = 0
    /\ wDatas = 0
    /\ visitors = [i \in {} |-> 0]
    /\ rlClock = 0
    /\ rlRate = 0
    /\ rlDuration = 0
    /\ rlGrants = [i \in IPs |-> << >>]
    /\ rlMu = "free"

NextKeepalive == KaTick \/ KaPing \/ KaPingFails \/ KaPong \/ KaEnds

-----------------------------------------------------------------------------
(* useWebSocket: the viewer's reconnecting client *)

\* the target addresses a render can pass
Urls == {"a"}

\* the options' defaults
reconnect == TRUE

reconnectInterval == 1000

maxReconnectAttempts == 10

reconnectDelay_NoCap(attempts) == reconnectInterval * 2 ^ attempts

\* Math.min(reconnectInterval * Math.pow(2, attempts), 30000)
reconnectDelay(attempts) == Min(reconnectInterval * 2 ^ attempts, 30000)

canReconnect_OneMore(attempts) == reconnect /\ attempts <= maxReconnectAttempts

\* reconnect && reconnectAttemptsRef.current < maxReconnectAttempts
canReconnect(attempts) == reconnect /\ attempts < maxReconnectAttempts

attemptsAfterOpen_Keep(attempts) == attempts

\* onopen: reconnectAttemptsRef.current = 0
attemptsAfterOpen(attempts) == 0

\* the state and refs of the hook right after useState and useRef
HookState ==
    [status     |-> "disconnected",
     wsRef      |-> 0,
     sockets    |-> [s \in SocketIds |-> NoSocket],
     timers     |-> [i \in TimerIds |-> Null],
     timeoutRef |-> 0]

\* the same fields as they are now
ClientState ==
    [status     |-> status,
     wsRef      |-> wsRef,
     sockets    |-> sockets,
     timers     |-> timers,
     timeoutRef |-> reconnectTimeoutRef]

HasFree(f, none) == \E k \in DOMAIN f : f[k] = none

\* the lowest free slot
FreeSlot(f, none) ==
    CHOOSE k \in DOMAIN f : f[k] = none /\ \A j \in DOMAIN f : j < k => f[j] # none

\* WebSocket.close(): a socket that is connecting or open starts closing
closeSocket(sock) ==
    IF sock.state \in {"connecting", "open"}
    THEN [sock EXCEPT !.state = "closing"]
    ELSE sock

\* setStatus; React drops the update of an unmounted component
setStatus(cs, st, isMounted) ==
    IF isMounted THEN [cs EXCEPT !.status = st] ELSE cs

disconnectState_OneThing(cs, isMounted) ==
    setStatus(
        IF cs.timeoutRef # 0
        THEN [cs EXCEPT !.timers[cs.timeoutRef] = Null, !.timeoutRef = 0]
        ELSE IF cs.wsRef # 0
        THEN [cs EXCEPT !.sockets[cs.wsRef] = closeSocket(@), !.wsRef = 0]
        ELSE cs,
        "disconnected", isMounted)

\* disconnect()
disconnectState(cs, isMounted) ==
    LET c1 == IF cs.timeoutRef # 0
              THEN [cs EXCEPT !.timers[cs.timeoutRef] = Null, !.timeoutRef = 0]
              ELSE cs
        c2 == IF c1.wsRef # 0
              THEN [c1 EXCEPT !.sockets[c1.wsRef] = closeSocket(@), !.wsRef = 0]
              ELSE c1
    IN  setStatus(c2, "disconnected", isMounted)

\* connect() of a render whose url is u, up to the assignment of the handlers
connectStateM(cs, u, isMounted) ==
    IF u = Null
    THEN setStatus(cs, "disconnected", isMounted)
    ELSE LET k == FreeSlot(cs.sockets, NoSocket)
         IN  [setStatus(cs, "connecting", isMounted)
                EXCEPT !.sockets[k] = [state |-> "connecting", url |-> u],
                       !.wsRef = k]

\* the hook's fields take the values of cs
SetClient(cs) ==
    /\ status' = cs.status
    /\ wsRef' = cs.wsRef
    /\ sockets' = cs.sockets
    /\ timers' = cs.timers
    /\ reconnectTimeoutRef' = cs.timeoutRef

\* a render with url u changes the effect's dependencies: the cleanup runs
\* disconnect(), the effect runs the new connect()
Rerender(u) ==
    /\ mounted
    /\ LET c1 == disconnectState(ClientState, TRUE)
       IN  /\ u # Null => HasFree(c1.sockets, NoSocket)
           /\ SetClient(connectStateM(c1, u, TRUE))
    /\ url' = u
    /\ teardowns' = 0
    /\ UNCHANGED <<serverVars, utilVars, kaVars, stripVars, mounted, reconnectAttemptsRef,
                   lastDelay, sinceOpen>>

\* the component unmounts: the cleanup runs disconnect()
Unmount ==
    /\ mounted
    /\ SetClient(disconnectState(ClientState, TRUE))
    /\ mounted' = FALSE
    /\ teardowns' = Min(teardowns + 1, 2)
    /\ UNCHANGED <<serverVars, utilVars, kaVars, stripVars, url, reconnectAttemptsRef,
                   lastDelay, sinceOpen>>

\* the caller invokes the disconnect() the hook returned
Disconnect ==
    /\ SetClient(disconnectState(ClientState, mounted))
    /\ teardowns' = Min(teardowns + 1, 2)
    /\ UNCHANGED <<serverVars, utilVars, kaVars, stripVars, url, mounted,
                   reconnectAttemptsRef, lastDelay, sinceOpen>>

\* ws.onopen
SocketOpen(s) ==
    /\ sockets[s].state = "connecting"
    /\ sockets' = [sockets EXCEPT ![s].state = "open"]
    /\ status' = setStatus(ClientState, "connected", mounted).status
    /\ reconnectAttemptsRef' = attemptsAfterOpen(reconnectAttemptsRef)
    /\ sinceOpen' = 0
    /\ teardowns' = 0
    /\ UNCHANGED <<serverVars, utilVars, kaVars, stripVars, url, mounted, wsRef, timers,
                   reconnectTimeoutRef, lastDelay>>

\* ws.onerror; the browser fires the close event after it
SocketError(s) ==
    /\ sockets[s].state \in {"connecting", "open", "closing"}
    /\ sockets' = [sockets EXCEPT ![s].state = "failing"]
    /\ status' = setStatus(ClientState, "error", mounted).status
    /\ teardowns' = 0
    /\ UNCHANGED <<serverVars, utilVars, kaVars, stripVars, url, mounted, wsRef, timers,
                   reconnectTimeoutRef, reconnectAttemptsRef, lastDelay,
                   sinceOpen>>

\* ws.onclose: the handler of the connect() call that made socket s
SocketClose(s) ==
    /\ sockets[s].state \in {"open", "closing", "failing"}
    /\ sockets' = [sockets EXCEPT ![s] = NoSocket]
    /\ status' = setStatus(ClientState, "disconnected", mounted).status
    /\ wsRef' = 0
    /\ IF canReconnect(reconnectAttemptsRef)
       THEN /\ HasFree(timers, Null)
            /\ LET i == FreeSlot(timers, Null)
               IN  /\ timers' = [timers EXCEPT ![i] = sockets[s].url]
                   /\ reconnectTimeoutRef' = i
            /\ lastDelay' = reconnectDelay(reconnectAttemptsRef)
            /\ reconnectAttemptsRef' = reconnectAttemptsRef + 1
            /\ sinceOpen' = sinceOpen + 1
       ELSE UNCHANGED <<timers, reconnectTimeoutRef, lastDelay,
                        reconnectAttemptsRef, sinceOpen>>
    /\ teardowns' = 0
    /\ UNCHANGED <<serverVars, utilVars, kaVars, stripVars, url, mounted>>

\* the setTimeout callback runs connect() of the render that scheduled it
TimerFires(i) ==
    /\ timers[i] # Null
    /\ HasFree(sockets, NoSocket)
    /\ SetClient(connectStateM([ClientState EXCEPT !.timers[i] = Null],
                               timers[i], mounted))
    /\ teardowns' = 0
    /\ UNCHANGED <<serverVars, utilVars, kaVars, stripVars, url, mounted,
                   reconnectAttemptsRef, lastDelay, sinceOpen>>

\* the first render and its effect: connect()
InitClient ==
    /\ previousStats = [c \in Containers |-> NoStats]
    /\ lastCall = OtherCall("none", "c1")
    /\ lastMem = MemResult(ZeroMem)
    /\ statsJSON = ZeroSample
    /\ logFrames = << >>
    /\ logOffset = 0
    /\ logReads = 0
    /\ logWritten = << >>
    /\ logPC = "idle"
    /\ producerPC = "idle"
    /\ consumerPC = "idle"
    /\ pingPC = "idle"
    /\ ctxDone = FALSE
    /\ statsChan = << >>
    /\ chanClosed = FALSE
    /\ sinceSend = 0
    /\ results = 0
    /\ dropped = << >>
    /\ written = << >>
    /\ closeSent = FALSE
    /\ pingsSent = 0
    /\ connBroken = FALSE
    /\ lastGap = 0
    /\ writesInTick = 0
    /\ callPC = [v \in Viewers |-> "idle"]
    /\ callArg = [v \in Viewers |-> ZeroSample]
    /\ callPrev = [v \in Viewers |-> NoStats]
    /\ kaKind = "none"
    /\ kaClock = 0
    /\ kaDeadline = 0
    /\ kaTicker = FALSE
    /\ kaNextPing = 0
    /\ kaPings = 0
    /\ kaUnreadPongs = 0
    /\ kaOpen = FALSE
    /\ url \in Urls \cup {Null}
    /\ mounted = TRUE
    /\ status = connectStateM(HookState, url, TRUE).status
    /\ wsRef = connectStateM(HookState, url, TRUE).wsRef
    /\ sockets = connectStateM(HookState, url, TRUE).sockets
    /\ timers = [i \in TimerIds |-> Null]
    /\ reconnectTimeoutRef = 0
    /\ reconnectAttemptsRef = 0
    /\ lastDelay = 0
    /\ sinceOpen = 0
    /\ teardowns = 0
    /\ stripData = << >>
    /\ stripOffset = 0
    /\ stripResult = << >>
    /\ stripPC = "idle"
    /\ metrics = [c \in {} |-> << >>]
    /\ pointsAdded = [c \in Containers |-> 0]
    /\ maxMetricsPoints = 0
    /\ storeLast = <<"none", "none">>
    /\ retryPC = "idle"
    /\ retryMax = 0
    /\ retryPred = "none"
    /\ retryAttempt = 0
    /\ retryCalls = 0
    /\ retryDelays = << >>
    /\ retryError = NoError
    /\ retryReply = NoReply
    /\ wPing = "idle"
    /\ wData = "idle"
    /\ wDeadline = "none"
    /\ wPings = 0
    /\ wDatas = 0
    /\ visitors = [i \in {} |-> 0]
    /\ rlClock = 0
    /\ rlRate = 0
    /\ rlDuration = 0
    /\ rlGrants = [i \in IPs |-> << >>]
    /\ rlMu = "free"

NextClient ==
    \/ (\E u \in Urls \cup {Null} : Rerender(u))
    \/ Unmount
    \/ Disconnect
    \/ (\E s \in SocketIds : SocketOpen(s))
    \/ (\E s \in SocketIds : SocketError(s))
    \/ (\E s \in SocketIds : SocketClose(s))
    \/ (\E i \in TimerIds : TimerFires(i))

-----------------------------------------------------------------------------
(* containerStore: the metrics the dashboard keeps per container *)

\* stores/containerStore.ts
MAX_METRICS_POINTS == 60

\* the copy of the store that has the timeUnit field
MAX_METRICS_POINTS_fixedWindow == 10

StoreCopies == {MAX_METRICS_POINTS, MAX_METRICS_POINTS_fixedWindow}

\* how many points one container gets before it is cleared
MaxAdds == 70

\* Array.prototype.slice(-n), n > 0
sliceLast(s, n) ==
    IF Len(s) <= n THEN s ELSE SubSeq(s, Len(s) - n + 1, Len(s))

\* state.metrics[containerId] || []
currentMetrics(m, id) == IF id \in DOMAIN m THEN m[id] ELSE << >>

\* addMetrics(containerId, newMetrics) on the metrics record m
addMetrics(m, id, new, max) ==
    [k \in DOMAIN m \cup {id} |->
        IF k = id THEN sliceLast(Append(currentMetrics(m, id), new), max)
                  ELSE m[k]]

clearMetrics_All(m, id) == [k \in {} |-> << >>]

\* clearMetrics(containerId): const { [containerId]: _, ...rest } = state.metrics
clearMetrics(m, id) == [k \in DOMAIN m \ {id} |-> m[k]]

\* a point arrives for container id; it carries its number since the last clear
AddMetrics(id) ==
    /\ pointsAdded[id] < MaxAdds
    /\ metrics' = addMetrics(metrics, id, pointsAdded[id], maxMetricsPoints)
    /\ pointsAdded' = [pointsAdded EXCEPT ![id] = @ + 1]
    /\ storeLast' = <<"add", id>>
    /\ UNCHANGED <<serverVars, kaVars, clientVars, stripVars, retryVars,
                   writeVars, limiterVars, maxMetricsPoints>>

ClearMetrics(id) ==
    /\ metrics' = clearMetrics(metrics, id)
    /\ pointsAdded' = [pointsAdded EXCEPT ![id] = 0]
    /\ storeLast' = <<"clear", id>>
    /\ UNCHANGED <<serverVars, kaVars, clientVars, stripVars, retryVars,
                   writeVars, limiterVars, maxMetricsPoints>>

\* create(): metrics: {}
InitStore ==
    /\ previousStats = [c \in Containers |-> NoStats]
    /\ lastCall = OtherCall("none", "c1")
    /\ lastMem = MemResult(ZeroMem)
    /\ statsJSON = ZeroSample
    /\ logFrames = << >>
    /\ logOffset = 0
    /\ logReads = 0
    /\ logWritten = << >>
    /\ logPC = "idle"
    /\ producerPC = "idle"
    /\ consumerPC = "idle"
    /\ pingPC = "idle"
    /\ ctxDone = FALSE
    /\ statsChan = << >>
    /\ chanClosed = FALSE
    /\ sinceSend = 0
    /\ results = 0
    /\ dropped = << >>
    /\ written = << >>
    /\ closeSent = FALSE
    /\ pingsSent = 0
    /\ connBroken = FALSE
    /\ lastGap = 0
    /\ writesInTick = 0
    /\ callPC = [v \in Viewers |-> "idle"]
    /\ callArg = [v \in Viewers |-> ZeroSample]
    /\ callPrev = [v \in Viewers |-> NoStats]
    /\ kaKind = "none"
    /\ kaClock = 0
    /\ kaDeadline = 0
    /\ kaTicker = FALSE
    /\ kaNextPing = 0
    /\ kaPings = 0
    /\ kaUnreadPongs = 0
    /\ kaOpen = FALSE
    /\ url = Null
    /\ mounted = FALSE
    /\ status = "disconnected"
    /\ wsRef = 0
    /\ sockets = [s \in SocketIds |-> NoSocket]
    /\ timers = [i \in TimerIds |-> Null]
    /\ reconnectTimeoutRef = 0
    /\ reconnectAttemptsRef = 0
    /\ lastDelay = 0
    /\ sinceOpen = 0
    /\ teardowns = 0
    /\ stripData = << >>
    /\ stripOffset = 0
    /\ stripResult = << >>
    /\ stripPC = "idle"
    /\ metrics = [c \in {} |-> << >>]
    /\ pointsAdded = [c \in Containers |-> 0]
    /\ maxMetricsPoints \in StoreCopies
    /\ storeLast = <<"none", "none">>
    /\ retryPC = "idle"
    /\ retryMax = 0
    /\ retryPred = "none"
    /\ retryAttempt = 0
    /\ retryCalls = 0
    /\ retryDelays = << >>
    /\ retryError = NoError
    /\ retryReply = NoReply
    /\ wPing = "idle"
    /\ wData = "idle"
    /\ wDeadline = "none"
    /\ wPings = 0
    /\ wDatas = 0
    /\ visitors = [i \in {} |-> 0]
    /\ rlClock = 0
    /\ rlRate = 0
    /\ rlDuration = 0
    /\ rlGrants = [i \in IPs |-> << >>]
    /\ rlMu = "free"

NextStore == (\E id \in Containers : AddMetrics(id)) \/ (\E id \in Containers : ClearMetrics(id))

-----------------------------------------------------------------------------
(* retry(fn, options) around an API request *)

\* defaultOptions
defaultMaxAttempts == 3

initialDelay == 1000

maxDelay == 30000

backoffMultiplier == 2

\* opts.maxAttempts as callers may pass it
MaxAttemptsValues == {1, 2, defaultMaxAttempts}

\* opts.retryable: not given, or isRetryableError as the api service gives it
RetryablePreds == {"none", "isRetryableError"}

\* what apiClient.get meets: an HTTP response with a status and an
\* APIResponse body (the error text may hold the word 'timeout'), or no
\* response at all
Replies ==
    {[kind |-> "response", status |-> 200, success |-> TRUE, timeoutText |-> FALSE]}
    \cup {[kind |-> "response", status |-> st, success |-> FALSE, timeoutText |-> tt] :
            st \in {200, 404, 429, 500}, tt \in BOOLEAN}
    \cup {[kind |-> k, status |-> 0, success |-> FALSE, timeoutText |-> FALSE] :
            k \in {"ECONNREFUSED", "ERR_NETWORK", "ECONNABORTED"}}

\* apiClient.get: axios rejects when there is no response (its timeout says
\* 'timeout of 10000ms exceeded') and when the status is not 2xx
axiosGet(reply) ==
    IF reply.kind # "response"
    THEN [ok |-> FALSE,
          error |-> [code |-> reply.kind, status |-> 0,
                     timeoutText |-> (reply.kind = "ECONNABORTED"),
                     serverText |-> FALSE]]
    ELSE IF reply.status \div 100 # 2
    THEN [ok |-> FALSE,
          error |-> [code |-> "ERR_BAD_RESPONSE", status |-> reply.status,
                     timeoutText |-> FALSE, serverText |-> FALSE]]
    ELSE [ok |-> TRUE, error |-> NoError]

\* the fn of api.getContainers: the data, or new Error(response.data.error)
getContainersFn(reply) ==
    LET got == axiosGet(reply)
    IN  IF ~got.ok THEN got
        ELSE IF reply.success THEN got
        ELSE [ok |-> FALSE,
              error |-> [code |-> "", status |-> 0,
                         timeoutText |-> reply.timeoutText,
                         serverText |-> TRUE]]

isRetryableError(e) ==
    IF e.code \in {"ECONNREFUSED", "ETIMEDOUT"} THEN TRUE
    ELSE IF e.status # 0 THEN e.status >= 500 \/ e.status = 429
    ELSE e.timeoutText

\* opts.retryable && !opts.retryable(error)
rejectedByPredicate(pred, e) == pred = "isRetryableError" /\ ~isRetryableError(e)

\* Math.min(initialDelay * backoffMultiplier^(attempt - 1), maxDelay)
retryDelay(attempt) ==
    Min(initialDelay * backoffMultiplier ^ (attempt - 1), maxDelay)

\* one pass of the loop body: await fn(), and the catch block
RetryCall(reply) ==
    /\ retryPC = "calling"
    /\ retryCalls' = retryCalls + 1
    /\ retryReply' = reply
    /\ LET got == getContainersFn(reply)
       IN  IF got.ok
           THEN /\ retryPC' = "resolved"
                /\ UNCHANGED <<retryError, retryDelays>>
           ELSE /\ retryError' = got.error
                /\ IF rejectedByPredicate(retryPred, got.error)
                       \/ retryAttempt = retryMax
                   THEN /\ retryPC' = "rejected"
                        /\ UNCHANGED retryDelays
                   ELSE /\ retryPC' = "waiting"
                        /\ retryDelays' = Append(retryDelays, retryDelay(retryAttempt))
    /\ UNCHANGED <<serverVars, kaVars, clientVars, stripVars, storeVars,
                   writeVars, limiterVars, retryMax, retryPred, retryAttempt>>

\* the setTimeout of the backoff resolves; attempt++
RetryWake ==
    /\ retryPC = "waiting"
    /\ retryPC' = "calling"
    /\ retryAttempt' = retryAttempt + 1
    /\ UNCHANGED <<serverVars, kaVars, clientVars, stripVars, storeVars,
                   writeVars, limiterVars, retryMax, retryPred, retryCalls,
                   retryDelays, retryError, retryReply>>

\* retry(fn, options) is called: attempt = 1
InitRetry ==
    /\ previousStats = [c \in Containers |-> NoStats]
    /\ lastCall = OtherCall("none", "c1")
    /\ lastMem = MemResult(ZeroMem)
    /\ statsJSON = ZeroSample
    /\ logFrames = << >>
    /\ logOffset = 0
    /\ logReads = 0
    /\ logWritten = << >>
    /\ logPC = "idle"
    /\ producerPC = "idle"
    /\ consumerPC = "idle"
    /\ pingPC = "idle"
    /\ ctxDone = FALSE
    /\ statsChan = << >>
    /\ chanClosed = FALSE
    /\ sinceSend = 0
    /\ results = 0
    /\ dropped = << >>
    /\ written = << >>
    /\ closeSent = FALSE
    /\ pingsSent = 0
    /\ connBroken = FALSE
    /\ lastGap = 0
    /\ writesInTick = 0
    /\ callPC = [v \in Viewers |-> "idle"]
    /\ callArg = [v \in Viewers |-> ZeroSample]
    /\ callPrev = [v \in Viewers |-> NoStats]
    /\ kaKind = "none"
    /\ kaClock = 0
    /\ kaDeadline = 0
    /\ kaTicker = FALSE
    /\ kaNextPing = 0
    /\ kaPings = 0
    /\ kaUnreadPongs = 0
    /\ kaOpen = FALSE
    /\ url = Null
    /\ mounted = FALSE
    /\ status = "disconnected"
    /\ wsRef = 0
    /\ sockets = [s \in SocketIds |-> NoSocket]
    /\ timers = [i \in TimerIds |-> Null]
    /\ reconnectTimeoutRef = 0
    /\ reconnectAttemptsRef = 0
    /\ lastDelay = 0
    /\ sinceOpen = 0
    /\ teardowns = 0
    /\ stripData = << >>
    /\ stripOffset = 0
    /\ stripResult = << >>
    /\ stripPC = "idle"
    /\ metrics = [c \in {} |-> << >>]
    /\ pointsAdded = [c \in Containers |-> 0]
    /\ maxMetricsPoints = 0
    /\ storeLast = <<"none", "none">>
    /\ retryPC = "calling"
    /\ retryMax \in MaxAttemptsValues
    /\ retryPred \in RetryablePreds
    /\ retryAttempt = 1
    /\ retryCalls = 0
    /\ retryDelays = << >>
    /\ retryError = NoError
    /\ retryReply = NoReply
    /\ wPing = "idle"
    /\ wData = "idle"
    /\ wDeadline = "none"
    /\ wPings = 0
    /\ wDatas = 0
    /\ visitors = [i \in {} |-> 0]
    /\ rlClock = 0
    /\ rlRate = 0
    /\ rlDuration = 0
    /\ rlGrants = [i \in IPs |-> << >>]
    /\ rlMu = "free"

NextRetry == (\E reply \in Replies : RetryCall(reply)) \/ RetryWake

-----------------------------------------------------------------------------
(* The two goroutines that write to one connection *)

\* writes followed on one connection
MaxWPings == 3

MaxWDatas == 3

\* case <-pingTicker.C: conn.SetWriteDeadline
PingSetsDeadline ==
    /\ wPing = "idle"
    /\ wPings < MaxWPings
    /\ wPing' = "deadline"
    /\ wDeadline' = "ping"
    /\ wPings' = wPings + 1
    /\ UNCHANGED <<serverVars, kaVars, clientVars, stripVars, storeVars,
                   retryVars, limiterVars, wData, wDatas>>

\* conn.WriteMessage(websocket.PingMessage, nil) is entered
PingWriteBegins ==
    /\ wPing = "deadline"
    /\ wPing' = "write"
    /\ UNCHANGED <<serverVars, kaVars, clientVars, stripVars, storeVars,
                   retryVars, limiterVars, wData, wDeadline, wPings, wDatas>>

\* the ping write returns
PingWriteEnds ==
    /\ wPing = "write"
    /\ wPing' = "idle"
    /\ UNCHANGED <<serverVars, kaVars, clientVars, stripVars, storeVars,
                   retryVars, limiterVars, wData, wDeadline, wPings, wDatas>>

\* case stats, ok := <-statsChan: conn.SetWriteDeadline
DataSetsDeadline ==
    /\ wData = "idle"
    /\ wDatas < MaxWDatas
    /\ wData' = "deadline"
    /\ wDeadline' = "data"
    /\ wDatas' = wDatas + 1
    /\ UNCHANGED <<serverVars, kaVars, clientVars, stripVars, storeVars,
                   retryVars, limiterVars, wPing, wPings>>

\* conn.WriteJSON(stats), or the close message, is entered
DataWriteBegins ==
    /\ wData = "deadline"
    /\ wData' = "write"
    /\ UNCHANGED <<serverVars, kaVars, clientVars, stripVars, storeVars,
                   retryVars, limiterVars, wPing, wDeadline, wPings, wDatas>>

\* the data write returns
DataWriteEnds ==
    /\ wData = "write"
    /\ wData' = "idle"
    /\ UNCHANGED <<serverVars, kaVars, clientVars, stripVars, storeVars,
                   retryVars, limiterVars, wPing, wDeadline, wPings, wDatas>>

\* the ping goroutine is started and the main loop entered
InitWriters ==
    /\ previousStats = [c \in Containers |-> NoStats]
    /\ lastCall = OtherCall("none", "c1")
    /\ lastMem = MemResult(ZeroMem)
    /\ statsJSON = ZeroSample
    /\ logFrames = << >>
    /\ logOffset = 0
    /\ logReads = 0
    /\ logWritten = << >>
    /\ logPC = "idle"
    /\ producerPC = "idle"
    /\ consumerPC = "idle"
    /\ pingPC = "idle"
    /\ ctxDone = FALSE
    /\ statsChan = << >>
    /\ chanClosed = FALSE
    /\ sinceSend = 0
    /\ results = 0
    /\ dropped = << >>
    /\ written = << >>
    /\ closeSent = FALSE
    /\ pingsSent = 0
    /\ connBroken = FALSE
    /\ lastGap = 0
    /\ writesInTick = 0
    /\ callPC = [v \in Viewers |-> "idle"]
    /\ callArg = [v \in Viewers |-> ZeroSample]
    /\ callPrev = [v \in Viewers |-> NoStats]
    /\ kaKind = "none"
    /\ kaClock = 0
    /\ kaDeadline = 0
    /\ kaTicker = FALSE
    /\ kaNextPing = 0
    /\ kaPings = 0
    /\ kaUnreadPongs = 0
    /\ kaOpen = FALSE
    /\ url = Null
    /\ mounted = FALSE
    /\ status = "disconnected"
    /\ wsRef = 0
    /\ sockets = [s \in SocketIds |-> NoSocket]
    /\ timers = [i \in TimerIds |-> Null]
    /\ reconnectTimeoutRef = 0
    /\ reconnectAttemptsRef = 0
    /\ lastDelay = 0
    /\ sinceOpen = 0
    /\ teardowns = 0
    /\ stripData = << >>
    /\ stripOffset = 0
    /\ stripResult = << >>
    /\ stripPC = "idle"
    /\ metrics = [c \in {} |-> << >>]
    /\ pointsAdded = [c \in Containers |-> 0]
    /\ maxMetricsPoints = 0
    /\ storeLast = <<"none", "none">>
    /\ retryPC = "idle"
    /\ retryMax = 0
    /\ retryPred = "none"
    /\ retryAttempt = 0
    /\ retryCalls = 0
    /\ retryDelays = << >>
    /\ retryError = NoError
    /\ retryReply = NoReply
    /\ wPing = "idle"
    /\ wData = "idle"
    /\ wDeadline = "none"
    /\ wPings = 0
    /\ wDatas = 0
    /\ visitors = [i \in {} |-> 0]
    /\ rlClock = 0
    /\ rlRate = 0
    /\ rlDuration = 0
    /\ rlGrants = [i \in IPs |-> << >>]
    /\ rlMu = "free"

NextWriters ==
    \/ PingSetsDeadline
    \/ PingWriteBegins
    \/ PingWriteEnds
    \/ DataSetsDeadline
    \/ DataWriteBegins
    \/ DataWriteEnds

-----------------------------------------------------------------------------
(* RateLimiter: the per-address request limit; time in minutes *)

\* time.Since(v.lastSeen) > 10*time.Minute
cleanupAge == 10

\* the clock moves in steps of RlStep minutes, up to MaxRlClock
RlStep == 5

MaxRlClock == 30

\* requests followed, over all addresses
MaxAllows == 4

\* RATE_LIMIT_REQUESTS and RATE_LIMIT_DURATION as the deployment sets them
Rates == {1, 2}

Durations == {5, 20}

\* Allow(ip) at time now: what it returns and the visitors map it leaves
allow(vis, ip, now, rate, duration) ==
    IF ip \notin DOMAIN vis
    THEN [ok |-> TRUE,
          visitors |-> [i \in DOMAIN vis \cup {ip} |->
                          IF i = ip THEN [lastSeen |-> now, count |-> 1]
                                    ELSE vis[i]]]
    ELSE IF now - vis[ip].lastSeen > duration
    THEN [ok |-> TRUE,
          visitors |-> [vis EXCEPT ![ip] = [lastSeen |-> now, count |-> 1]]]
    ELSE IF vis[ip].count >= rate
    THEN [ok |-> FALSE, visitors |-> vis]
    ELSE [ok |-> TRUE,
          visitors |-> [vis EXCEPT ![ip] = [lastSeen |-> now, count |-> @.count + 1]]]

\* one pass of the cleanup goroutine at time now
cleanupVisitors(vis, now) ==
    [i \in {j \in DOMAIN vis : ~(now - vis[j].lastSeen > cleanupAge)} |-> vis[i]]

RlTick ==
    /\ rlClock + RlStep <= MaxRlClock
    /\ rlClock' = rlClock + RlStep
    /\ UNCHANGED <<serverVars, kaVars, clientVars, stripVars, storeVars,
                   retryVars, writeVars, visitors, rlRate, rlDuration, rlGrants, rlMu>>

\* a request from ip enters Allow: rl.mu.Lock()
AllowLocks(ip) ==
    /\ rlMu = "free"
    /\ Len(rlGrants["ip1"]) + Len(rlGrants["ip2"]) < MaxAllows
    /\ rlMu' = ip
    /\ UNCHANGED <<serverVars, kaVars, clientVars, stripVars, storeVars,
                   retryVars, writeVars, visitors, rlClock, rlRate, rlDuration, rlGrants>>

\* the body of Allow and the deferred rl.mu.Unlock()
AllowRuns(ip) ==
    /\ rlMu = ip
    /\ LET res == allow(visitors, ip, rlClock, rlRate, rlDuration)
       IN  /\ visitors' = res.visitors
           /\ rlGrants' = IF res.ok
                          THEN [rlGrants EXCEPT ![ip] = Append(@, rlClock)]
                          ELSE rlGrants
    /\ rlMu' = "free"
    /\ UNCHANGED <<serverVars, kaVars, clientVars, stripVars, storeVars,
                   retryVars, writeVars, rlClock, rlRate, rlDuration>>

\* for range rl.cleanup.C: rl.mu.Lock()
CleanupLocks ==
    /\ rlMu = "free"
    /\ rlMu' = "cleanup"
    /\ UNCHANGED <<serverVars, kaVars, clientVars, stripVars, storeVars,
                   retryVars, writeVars, visitors, rlClock, rlRate, rlDuration, rlGrants>>

\* the cleanup loop over the visitors and rl.mu.Unlock()
CleanupRuns ==
    /\ rlMu = "cleanup"
    /\ visitors' = cleanupVisitors(visitors, rlClock)
    /\ rlMu' = "free"
    /\ UNCHANGED <<serverVars, kaVars, clientVars, stripVars, storeVars,
                   retryVars, writeVars, rlClock, rlRate, rlDuration, rlGrants>>

\* NewRateLimiter(rate, duration)
InitLimiter ==
    /\ previousStats = [c \in Containers |-> NoStats]
    /\ lastCall = OtherCall("none", "c1")
    /\ lastMem = MemResult(ZeroMem)
    /\ statsJSON = ZeroSample
    /\ logFrames = << >>
    /\ logOffset = 0
    /\ logReads = 0
    /\ logWritten = << >>
    /\ logPC = "idle"
    /\ producerPC = "idle"
    /\ consumerPC = "idle"
    /\ pingPC = "idle"
    /\ ctxDone = FALSE
    /\ statsChan = << >>
    /\ chanClosed = FALSE
    /\ sinceSend = 0
    /\ results = 0
    /\ dropped = << >>
    /\ written = << >>
    /\ closeSent = FALSE
    /\ pingsSent = 0
    /\ connBroken = FALSE
    /\ lastGap = 0
    /\ writesInTick = 0
    /\ callPC = [v \in Viewers |-> "idle"]
    /\ callArg = [v \in Viewers |-> ZeroSample]
    /\ callPrev = [v \in Viewers |-> NoStats]
    /\ kaKind = "none"
    /\ kaClock = 0
    /\ kaDeadline = 0
    /\ kaTicker = FALSE
    /\ kaNextPing = 0
    /\ kaPings = 0
    /\ kaUnreadPongs = 0
    /\ kaOpen = FALSE
    /\ url = Null
    /\ mounted = FALSE
    /\ status = "disconnected"
    /\ wsRef = 0
    /\ sockets = [s \in SocketIds |-> NoSocket]
    /\ timers = [i \in TimerIds |-> Null]
    /\ reconnectTimeoutRef = 0
    /\ reconnectAttemptsRef = 0
    /\ lastDelay = 0
    /\ sinceOpen = 0
    /\ teardowns = 0
    /\ stripData = << >>
    /\ stripOffset = 0
    /\ stripResult = << >>
    /\ stripPC = "idle"
    /\ metrics = [c \in {} |-> << >>]
    /\ pointsAdded = [c \in Containers |-> 0]
    /\ maxMetricsPoints = 0
    /\ storeLast = <<"none", "none">>
    /\ retryPC = "idle"
    /\ retryMax = 0
    /\ retryPred = "none"
    /\ retryAttempt = 0
    /\ retryCalls = 0
    /\ retryDelays = << >>
    /\ retryError = NoError
    /\ retryReply = NoReply
    /\ wPing = "idle"
    /\ wData = "idle"
    /\ wDeadline = "none"
    /\ wPings = 0
    /\ wDatas = 0
    /\ visitors = [i \in {} |-> 0]
    /\ rlClock = 0
    /\ rlRate \in Rates
    /\ rlDuration \in Durations
    /\ rlGrants = [i \in IPs |-> << >>]
    /\ rlMu = "free"

NextLimiter ==
    \/ RlTick
    \/ (\E ip \in IPs : AllowLocks(ip))
    \/ (\E ip \in IPs : AllowRuns(ip))
    \/ CleanupLocks
    \/ CleanupRuns

-----------------------------------------------------------------------------
(* Specifications *)

SpecCalc == InitCalc /\ [][NextCalc]_vars

SpecMem == InitCalc /\ [][NextMem]_vars

SpecShared == InitCalc /\ [][NextShared]_vars

SpecLogs == InitLogs /\ [][NextLogs]_vars

SpecStrip == InitStrip /\ [][NextStrip]_vars

SpecKeepalive == InitKeepalive /\ [][NextKeepalive]_vars

SpecClient == InitClient /\ [][NextClient]_vars

SpecStore == InitStore /\ [][NextStore]_vars

SpecRetry == InitRetry /\ [][NextRetry]_vars

SpecWriters == InitWriters /\ [][NextWriters]_vars

SpecLimiter == InitLimiter /\ [][NextLimiter]_vars

SpecStats == InitPump /\ [][NextPump]_vars

\* the goroutines are scheduled: a select with a ready case proceeds, a
\* write returns within writeWait, a read on a cancelled request fails.
\* Nothing makes the runtime deliver another sample or end its stream.
FairSpecStats ==
    /\ InitPump
    /\ [][NextPump]_vars
    /\ WF_vars(ProducerOpen \/ ProducerOpenFails)
    /\ WF_vars(ProducerCancelled \/ ProducerDefault)
    /\ WF_vars(ctxDone /\ ProducerDecodeFails)
    /\ WF_vars(PingCancelled)
    /\ WF_vars(ConsumerStep)


-----------------------------------------------------------------------------
(* LogsHandler properties *)

\* the payloads of the frames that lie wholly within the first k bytes
RECURSIVE CompletePayloads(_, _)
CompletePayloads(fs, k) ==
    IF fs = << >> \/ Len(EncodeFrame(Head(fs))) > k
    THEN << >>
    ELSE Head(fs).payload
            \o CompletePayloads(Tail(fs), k - Len(EncodeFrame(Head(fs))))

\* C1: however the bytes of a well-formed frame sequence are split into read
\* chunks, the payload bytes delivered to the viewer are the ones delivered
\* when the whole sequence arrives in one chunk.
C1_SplitIndependent ==
    logPC = "eof" => Flatten(logWritten) = stripDockerHeader(logStream)

\* C2: after every read the bytes emitted so far are exactly the payloads of
\* the frames received in full; an incomplete trailing frame is neither
\* emitted nor dropped.
C2_OnlyCompleteFrames ==
    logPC \in {"reading", "eof"}
        => Flatten(logWritten) = CompletePayloads(logFrames, logOffset)

\* the byte offsets at which a frame of the stream ends
FrameEnd(fs, k) == Len(EncodeFrames(SubSeq(fs, 1, k)))

\* the payloads of frames i+1 .. j
PayloadsOf(fs, i, j) ==
    Flatten([k \in 1 .. (j - i) |-> fs[i + k].payload])

C29_Step ==
    \A i, j \in 0 .. Len(logFrames) :
        (/\ i < j
         /\ logPC = "reading" /\ logPC' = "reading"
         /\ logOffset = FrameEnd(logFrames, i)
         /\ logOffset' = FrameEnd(logFrames, j))
            => /\ Flatten(logWritten')
                    = Flatten(logWritten) \o PayloadsOf(logFrames, i, j)
               /\ Len(logWritten') <= Len(logWritten) + 1
               /\ \A m \in 1 .. Len(logWritten') : logWritten'[m] # << >>

C30_Step ==
    stripPC = "loop"
        => \/ stripPC' = "done"
           \/ /\ stripOffset' >= stripOffset + HeaderLen
              /\ stripOffset' <= Len(stripData)

C30_CanStep == stripPC = "loop" => ENABLED <<StripIter>>_vars

\* C30: whatever the length field holds, an iteration of the stripping loop
\* either leaves the loop or moves the offset on by at least 8 bytes, never
\* past the chunk's end, and an iteration is always possible: the loop ends
\* after at most len(data) / 8 + 1 iterations.
C30_LoopTerminates == [] C30_CanStep /\ [][C30_Step]_vars

\* the loop went through a frame and then left at a header whose length
\* field points far beyond the chunk
C30_Witness ==
    /\ stripPC = "done"
    /\ stripOffset >= HeaderLen
    /\ stripOffset + HeaderLen <= Len(stripData)
    /\ BigEndianUint32(Slice(stripData, stripOffset + 4, stripOffset + 8))
            > Len(stripData)

\* the loop, run to its end, returns what stripDockerHeader returns
StripAgrees == stripPC = "done" => stripResult = stripDockerHeader(stripData)

-----------------------------------------------------------------------------
(* StatsHandler properties *)

\* C3: the channel never holds more than 100 results, and the producer's
\* calculate-and-send step can always be taken, whatever the consumer does.
C3_BoundedNonBlocking ==
    /\ Len(statsChan) <= QueueCap
    /\ (producerPC = "decode" /\ results < MaxResults) => ENABLED DoProducerAccept

\* the channel is full, nothing was ever dequeued, and the producer has gone
\* through a send on the full channel
C3_Witness ==
    /\ Len(statsChan) = QueueCap
    /\ written = << >>
    /\ consumerPC = "loop"
    /\ dropped # << >>
    /\ producerPC = "select"

C4_Step ==
    (/\ producerPC = "decode"
     /\ results' = results + 1
     /\ Len(statsChan) = QueueCap)
        => /\ statsChan' = statsChan
           /\ dropped' = Append(dropped, results')
           /\ producerPC' = "select"
           /\ chanClosed' = chanClosed
           /\ consumerPC' = consumerPC
           /\ ctxDone' = ctxDone

\* C4: a send on a full channel discards exactly the new result, leaves the
\* channel's contents and order as they were, and ends neither the producer
\* nor the consumer: the producer is back at its select.
C4_FullQueueDropsNewest == [][C4_Step]_vars

\* a result was discarded and both tasks are still running
C4_Witness ==
    /\ dropped # << >>
    /\ dropped[Len(dropped)] = results
    /\ Len(statsChan) = QueueCap
    /\ producerPC = "select"
    /\ consumerPC = "loop"

\* C5: the results written to the connection are a subsequence of the
\* results produced, in production order: none twice, none swapped.
C5_WrittenInOrder ==
    /\ \A i \in 1 .. Len(written) : written[i] \in 1 .. results
    /\ \A i, j \in 1 .. Len(written) : i < j => written[i] < written[j]

\* results were written after one was discarded
C5_Witness ==
    /\ Len(written) >= 2
    /\ dropped # << >>

-----------------------------------------------------------------------------
(* StatsCalculator properties *)

CalcCalled == lastCall.op = "calc"

\* C6: CalculateStats for a container with no stored baseline (never seen,
\* reset or cleared) returns CPU percent exactly 0 and no error.
C6_FirstSeenIsZero ==
    (CalcCalled /\ ~lastCall.hasPrevious)
        => (lastCall.cpuPercent = RatZero /\ lastCall.err = FALSE)

C6_Witness ==
    /\ CalcCalled
    /\ ~lastCall.hasPrevious
    /\ lastCall.stats.cpu > 0
    /\ lastCall.stats.system > 0

\* C7: when the CPU counter moved backward, or the system-usage delta is
\* zero, the CPU percent is exactly 0; the wrapped unsigned subtraction never
\* shows up in the result.
C7_BackwardOrZeroDeltaIsZero ==
    (/\ CalcCalled
     /\ lastCall.hasPrevious
     /\ \/ lastCall.stats.cpu < lastCall.prevCPU
        \/ lastCall.stats.system = lastCall.prevSystem)
        => lastCall.cpuPercent = RatZero

C7_Witness ==
    /\ CalcCalled
    /\ lastCall.hasPrevious
    /\ lastCall.stats.cpu < lastCall.prevCPU
    /\ lastCall.stats.system # lastCall.prevSystem

\* C8: after any sequence of CalculateStats, ResetStats and ClearAllStats
\* calls every returned CPU percent lies in [0, 1000].
C8_PercentInRange ==
    /\ RatLeq(RatZero, lastCall.cpuPercent)
    /\ RatLeq(lastCall.cpuPercent, RatInt(1000))

\* the system counter moved backward, the CPU counter did not, and the clamp
\* acted
C8_Witness ==
    /\ CalcCalled
    /\ lastCall.hasPrevious
    /\ lastCall.stats.system < lastCall.prevSystem
    /\ lastCall.stats.cpu > lastCall.prevCPU
    /\ lastCall.cpuPercent = RatInt(1000)

\* the core count the claim states: per-core list length, else the online
\* count, else 1
C9_Cores(s) == IF s.percpu # 0 THEN s.percpu ELSE IF s.online # 0 THEN s.online ELSE 1

\* C9: with a baseline, a CPU counter that did not move backward and a
\* positive system delta, the CPU percent is
\* min(1000, deltaCPU / deltaSystem * n * 100).
C9_PercentFormula ==
    (/\ CalcCalled
     /\ lastCall.hasPrevious
     /\ lastCall.stats.cpu >= lastCall.prevCPU
     /\ lastCall.stats.system > lastCall.prevSystem)
        => lastCall.cpuPercent =
             RatMin(RatInt(1000),
                    Rat((lastCall.stats.cpu - lastCall.prevCPU)
                            * C9_Cores(lastCall.stats) * 100,
                        lastCall.stats.system - lastCall.prevSystem))

\* the documented example in units of 10^9: deltaCPU 1, deltaSystem 2, four
\* cores, 200 percent
C9_Witness ==
    /\ CalcCalled
    /\ lastCall.hasPrevious
    /\ lastCall.prevCPU = 1 /\ lastCall.prevSystem = 1
    /\ lastCall.stats.cpu = 2 /\ lastCall.stats.system = 3
    /\ lastCall.stats.percpu = 4 /\ lastCall.stats.online = 2
    /\ lastCall.cpuPercent = RatInt(200)

C10_Stored ==
    CalcCalled =>
        /\ previousStats[lastCall.id] # NoStats
        /\ Deref(previousStats[lastCall.id]) = lastCall.stats

C10_NextReadsIt ==
    (/\ lastCall.op = "calc"
     /\ lastCall'.op = "calc"
     /\ lastCall'.id = lastCall.id)
        => /\ lastCall'.hasPrevious
           /\ lastCall'.prevCPU = lastCall.stats.cpu
           /\ lastCall'.prevSystem = lastCall.stats.system

C11_Deleted ==
    /\ lastCall.op = "reset" => previousStats[lastCall.id] = NoStats
    /\ lastCall.op = "clear" => \A c \in Containers : previousStats[c] = NoStats

C11_NextIsZero ==
    \A c \in Containers :
        previousStats[c] = NoStats =>
            IF lastCall'.op = "calc" /\ lastCall'.id = c
            THEN ~lastCall'.hasPrevious /\ lastCall'.cpuPercent = RatZero
            ELSE previousStats'[c] = NoStats

C11_ZeroAfterReset == [] C11_Deleted /\ [][C11_NextIsZero]_vars

\* ResetStats has just deleted a baseline that was there
C11_Witness ==
    /\ lastCall.op = "reset"
    /\ lastCall.hasPrevious
    /\ previousStats[lastCall.id] = NoStats

\* C12: the memory percent is (usage - cache) / limit * 100 when limit > 0,
\* with cache 0 when none is reported, and 0 when limit is 0.
C12_MemoryPercentFormula ==
    CalcCalled =>
        LET m     == lastMem.mem
            cache == IF m.hasCache THEN m.cache ELSE 0
        IN  IF m.limit > 0
            THEN lastMem.memoryPercent.num * m.limit
                    = (m.usage - cache) * 100 * lastMem.memoryPercent.den
            ELSE lastMem.memoryPercent = RatZero

-----------------------------------------------------------------------------
(* StatsHandler and shared-calculator properties *)

C13_Step ==
    (lastCall.op = "calc" /\ results' = results + 1)
        => /\ lastCall'.hasPrevious
           /\ lastCall'.prevCPU = lastCall.stats.cpu
           /\ lastCall'.prevSystem = lastCall.stats.system

\* C13: when sample n+1 is calculated the baseline the calculator reads still
\* holds the counters of sample n, the one calculated before it: decoding has
\* not altered it.
C13_BaselineIsPreviousSample == [][C13_Step]_vars

C14_Step ==
    (producerPC = "decode" /\ producerPC' = "select")
        => /\ results' = results + 1
           /\ lastCall'.op = "calc"
           /\ lastCall'.stats = statsJSON'
           /\ previousStats'[connID] # NoStats

\* C14: every sample the producer decodes is passed to the calculator and is
\* the baseline afterwards, also one decoded less than a second after the
\* last send.
C14_EveryDecodedIsCalculated == [][C14_Step]_vars

C15_Enqueued == results - Len(dropped)

\* C15 as stated: the result last enqueued was accepted at least a second
\* after the one before it (the first: after the producer's start), and so the
\* viewer is never written two results within the same tick.
C15_OnePerSecond ==
    /\ C15_Enqueued > 0 => lastGap >= sendInterval
    /\ writesInTick <= 1

\* C15 amended: the result last enqueued was accepted at least a second after
\* the one before it, the first at least a second after the producer's start.
C15_EnqueuedOncePerSecond == C15_Enqueued > 0 => lastGap >= sendInterval

\* two results, enqueued a second apart, written within one tick
C15_Witness ==
    /\ C15_Enqueued >= 2
    /\ lastGap = sendInterval
    /\ Len(written) >= 2
    /\ writesInTick = 2

\* C16: at most one viewer is inside CalculateStats at a time, and the
\* process is never stopped for a concurrent map access.
C16_CallsNeverOverlap ==
    /\ Cardinality({v \in Viewers : callPC[v] = "inside"}) <= 1
    /\ \A v \in Viewers : callPC[v] # "crashed"

C17_Trigger ==
    producerPC = "done" \/ consumerPC = "done" \/ pingPC = "done" \/ ctxDone

C17_AllDone == producerPC = "done" /\ consumerPC = "done" /\ pingPC = "done"

\* C17: after a write error (of a result or of a ping), a decode error or
\* end of stream, or a cancellation, the producer, the ping goroutine and
\* the main loop all terminate eventually.
C17_AllTerminate == C17_Trigger ~> C17_AllDone

\* C18: once the producer has exited, the main loop eventually finds the
\* channel closed and writes the close message, unless a write fails or the
\* context is cancelled first.
C18_CloseAfterProducerExit == (producerPC = "done") ~> (closeSent \/ ctxDone)

\* the producer exited, the queued results were written, then the close
C18_Witness ==
    /\ producerPC = "done"
    /\ written # << >>
    /\ closeSent
    /\ statsChan = << >>

C19_Step ==
    ctxDone => /\ results' = results
               /\ Len(statsChan') <= Len(statsChan)
               /\ written' = written

\* C19: once the context is cancelled no further result is calculated or
\* enqueued and no further data message is written.
C19_NothingAfterCancel == [][C19_Step]_vars

C20_Step ==
    /\ producerPC = "done"
          => /\ producerPC' = "done"
             /\ results' = results
             /\ dropped' = dropped
             /\ Len(statsChan') <= Len(statsChan)
    /\ producerPC # "open" => producerPC' # "open"

\* C20: after the producer has exited it stays exited: no result is
\* calculated or enqueued any more, and the goroutine never goes back to
\* opening the runtime's stats stream, so the stream is opened at most once.
C20_ProducerExitIsFinal == [][C20_Step]_vars

\* the producer has exited while results are queued and the main loop runs
C20_Witness ==
    /\ producerPC = "done"
    /\ consumerPC = "loop"
    /\ Len(statsChan) > 0
    /\ ~ctxDone

-----------------------------------------------------------------------------
(* Keepalive properties *)

\* C21: a connection that is still open has not passed its read deadline,
\* and every pong that arrived has been taken in (and has moved the deadline
\* to pongWait after its receipt).
C21_PongDeadline ==
    kaOpen => (kaClock <= kaDeadline /\ kaUnreadPongs = 0)

\* C22: every open streaming connection, whatever its handler, has a read
\* deadline and a running ping ticker, and never lets more than a ping
\* period (to the clock's step) pass without writing a ping.
C22_PingsOnEveryStream ==
    kaOpen => /\ kaDeadline > 0
              /\ kaTicker
              /\ kaClock < (kaPings + 1) * pingPeriod + TimeStep
              /\ pingPeriod < pongWait

-----------------------------------------------------------------------------
(* Reconnecting client properties *)

\* C23: the k-th reconnect after the last successful open (k from 0) is
\* scheduled after min(1000 * 2^k, 30000) ms, which never exceeds 30000
C23_BackoffDelay ==
    sinceOpen > 0 =>
        /\ lastDelay = Min(1000 * 2 ^ (sinceOpen - 1), 30000)
        /\ lastDelay <= 30000
        /\ sinceOpen <= 5 => lastDelay = 1000 * 2 ^ (sinceOpen - 1)
        /\ sinceOpen > 5 => lastDelay = 30000

C23_Witness == sinceOpen = 7 /\ lastDelay = 30000

NoTimerPending == \A i \in TimerIds : timers[i] = Null

\* C24: once the url is null or the component is unmounted, no reconnect
\* timer is pending and no socket is being opened or is open, whenever the
\* old socket's close event arrives
C24_TornDownStaysDown ==
    (url = Null \/ ~mounted) =>
        /\ NoTimerPending
        /\ \A s \in SocketIds : sockets[s].state \notin {"connecting", "open"}

\* C25: a close that finds the attempt counter at the maximum schedules no
\* reconnect, and at most 10 reconnects are scheduled between two opens
C25_Step ==
    (reconnectAttemptsRef >= 10 /\ \E s \in SocketIds : SocketClose(s))
        => (timers' = timers /\ sinceOpen' = sinceOpen)

C25_AttemptsCapped == [](sinceOpen <= 10) /\ [][C25_Step]_vars

C25_Witness ==
    /\ sinceOpen = 10
    /\ reconnectAttemptsRef = 10
    /\ NoTimerPending
    /\ \A s \in SocketIds : sockets[s] = NoSocket
    /\ mounted /\ url # Null

\* C26: every successful open sets the attempt counter to 0, so the first
\* reconnect scheduled after it waits the base delay of 1000 ms
C26_Step ==
    /\ (\E s \in SocketIds : SocketOpen(s)) => reconnectAttemptsRef' = 0
    /\ (sinceOpen = 0 /\ sinceOpen' = 1) => lastDelay' = 1000

C26_OpenResetsBackoff == [][C26_Step]_vars

C26_Witness ==
    /\ lastDelay >= 4000
    /\ sinceOpen = 0
    /\ reconnectAttemptsRef = 0
    /\ status = "connected"

\* a connection attempt starts: connect() made a socket and stored it
NewAttempt == wsRef' # 0 /\ wsRef' # wsRef

\* C27: away from teardown, a new attempt starts at 'connecting', and within
\* the attempt of the current socket 'disconnected' and 'error' are final and
\* 'connected' does not go back to 'connecting'
C27_Step ==
    (mounted /\ mounted' /\ url' = url /\ teardowns' = 0) =>
        IF NewAttempt
        THEN status' = "connecting"
        ELSE /\ (status \in {"disconnected", "error"} /\ wsRef # 0)
                    => status' = status
             /\ status = "connected" => status' # "connecting"

C27_StatusMonotone == [][C27_Step]_vars

\* C28: a second teardown leaves the connection state, the pending timers and
\* the socket reference as the first left them, on the client (disconnect)
\* and on the server (cancel)
C28_Step ==
    (teardowns = 1 /\ teardowns' = 2) =>
        UNCHANGED <<status, wsRef, sockets, timers, reconnectTimeoutRef>>

C28_TeardownIdempotent ==
    /\ [](/\ \A m \in BOOLEAN :
              disconnectState(disconnectState(ClientState, m), m)
                  = disconnectState(ClientState, m)
          /\ \A d \in BOOLEAN : cancelCtx(cancelCtx(d)) = cancelCtx(d))
    /\ [][C28_Step]_vars

C28_Witness ==
    /\ teardowns = 2
    /\ mounted
    /\ \E s \in SocketIds : sockets[s].state = "closing"

-----------------------------------------------------------------------------
(* containerStore properties *)

\* the last n of the points numbered 0 .. added - 1, oldest first
LastPoints(added, n) ==
    [i \in 1 .. Min(added, n) |-> added - Min(added, n) + i - 1]

\* C31: the store holds at most 60 points per container, the most recently
\* added ones in insertion order (after 70 points 0..69 it holds 10..69)
C31_LastSixtyKept ==
    \A id \in DOMAIN metrics :
        /\ Len(metrics[id]) <= 60
        /\ metrics[id] = LastPoints(pointsAdded[id], 60)

C32_Step ==
    \A id \in Containers :
        /\ (AddMetrics(id) \/ ClearMetrics(id)) =>
                \A k \in Containers \ {id} :
                    /\ k \in DOMAIN metrics' <=> k \in DOMAIN metrics
                    /\ k \in DOMAIN metrics => metrics'[k] = metrics[k]
        /\ ClearMetrics(id) => id \notin DOMAIN metrics'

\* C32: addMetrics(id, m) and clearMetrics(id) leave the lists of all other
\* containers as they were, and clearMetrics(id) leaves no entry for id
C32_OnlyOwnList == [][C32_Step]_vars

\* container c1 was cleared while c2 held points
C32_Witness ==
    /\ storeLast = <<"clear", "c1">>
    /\ "c1" \notin DOMAIN metrics
    /\ "c2" \in DOMAIN metrics
    /\ Len(metrics["c2"]) = 2

-----------------------------------------------------------------------------
(* retry properties *)

\* fn is invoked at most maxAttempts times
C33_AtMostMaxAttempts == retryCalls <= retryMax

\* an error the predicate rejects ends retry() at once, and no wait follows it
C33_RejectedAtOnce ==
    (retryCalls > 0 /\ retryPC # "resolved"
        /\ rejectedByPredicate(retryPred, retryError))
            => (retryPC = "rejected" /\ Len(retryDelays) = retryCalls - 1)

\* a response carrying success=false ends a request of the api service:
\* nothing is requested after it
C33_FailureNotRetried ==
    (retryPred = "isRetryableError" /\ retryReply.kind = "response"
        /\ ~retryReply.success)
            => retryPC = "rejected"

\* C33: retry(fn) invokes fn at most maxAttempts times, an error that the
\* retryable predicate rejects is rethrown at once with no delay, and so an
\* API response with success=false rejects with the server's error message
\* after a single request
C33_RetryStopsOnRejected ==
    /\ C33_AtMostMaxAttempts
    /\ C33_RejectedAtOnce
    /\ C33_FailureNotRetried

-----------------------------------------------------------------------------
(* Writer properties *)

\* C34: the ping goroutine and the main loop are never between setting the
\* write deadline and the return of their write at the same time, and a
\* write runs under the deadline its own goroutine set
C34_OneWriterAtATime ==
    /\ ~(wPing # "idle" /\ wData # "idle")
    /\ wPing = "write" => wDeadline = "ping"
    /\ wData = "write" => wDeadline = "data"

-----------------------------------------------------------------------------
(* One socket per hook *)

\* the sockets that are connecting or open
LiveSockets == {s \in SocketIds : sockets[s].state \in {"connecting", "open"}}

PendingTimers == {i \in TimerIds : timers[i] # Null}

\* C35: at most one socket is connecting or open and at most one reconnect
\* timer is pending; the stored reference is the live socket's, and events
\* of an older socket have not put 'disconnected' or a reconnect timer next
\* to it
C35_OneSocketOneTimer ==
    /\ Cardinality(LiveSockets) <= 1
    /\ Cardinality(PendingTimers) <= 1
    /\ \A s \in LiveSockets :
        /\ wsRef = s
        /\ PendingTimers = {}
        /\ mounted => status # "disconnected"

-----------------------------------------------------------------------------
(* Draining the queue *)

\* the results that went into the queue, in order: all but the dropped ones
C36_Queued ==
    SelectSeq([r \in 1 .. results |-> r],
              LAMBDA r : \A k \in 1 .. Len(dropped) : dropped[k] # r)

C36_Step ==
    (~closeSent /\ closeSent')
        => /\ statsChan = << >>
           /\ written' = C36_Queued

\* C36: when the close message is written, every result that was queued has
\* been written before it, in order, and none is left in the queue
C36_QueueDrainedBeforeClose == [][C36_Step]_vars

\* the stream ended with results behind it, and the close message followed
\* the last of them
C36_Witness ==
    /\ closeSent
    /\ chanClosed
    /\ Len(written) = MaxWrites
    /\ written = C36_Queued

-----------------------------------------------------------------------------
(* Memory percent range, and the calculator's frame *)

\* C37: for a sample with limit > 0 and usage <= limit the memory percent
\* lies in [0, 100], also when the reported cache is larger than the usage
C37_MemoryPercentInRange ==
    (CalcCalled /\ lastMem.mem.limit > 0 /\ lastMem.mem.usage <= lastMem.mem.limit)
        => /\ RatLeq(RatZero, lastMem.memoryPercent)
           /\ RatLeq(lastMem.memoryPercent, RatInt(100))

\* the baseline object CalculateStats finds under id, the zero value if none
C38_Baseline(id) ==
    IF previousStats[id] = NoStats THEN ZeroSample ELSE Deref(previousStats[id])

\* lastCall' tells which call the step was
C38_Step ==
    LET id == lastCall'.id
    IN  /\ lastCall'.op \in {"calc", "reset"}
                => \A k \in Containers \ {id} : previousStats'[k] = previousStats[k]
        /\ lastCall'.op = "calc"
                => lastCall'.cpuPercent
                       = cpuPercentOf(previousStats[id] # NoStats,
                                      C38_Baseline(id), lastCall'.stats)

\* C38: CalculateStats(id, s) and ResetStats(id) leave the baselines of all
\* other containers as they were, and the CPU percent of a call is computed
\* from the baseline under its own id alone
C38_OnlyOwnBaseline == [][C38_Step]_vars

\* a call for c1 found its baseline while c2 held another one
C38_Witness ==
    /\ lastCall.op = "calc"
    /\ lastCall.id = "c1"
    /\ lastCall.hasPrevious
    /\ previousStats["c2"] # NoStats
    /\ previousStats["c2"] # previousStats["c1"]

-----------------------------------------------------------------------------
(* RateLimiter properties *)

\* the requests of ip granted in the window of length duration that starts
\* with its k-th granted request
C39_GrantedInWindow(ip, k) ==
    {j \in 1 .. Len(rlGrants[ip]) :
        /\ rlGrants[ip][k] <= rlGrants[ip][j]
        /\ rlGrants[ip][j] < rlGrants[ip][k] + rlDuration}

\* C39: for each address, Allow grants at most rate requests within any
\* window of length duration, whatever the cleanup does in between
C39_RateRespected ==
    \A ip \in IPs : \A k \in 1 .. Len(rlGrants[ip]) :
        Cardinality(C39_GrantedInWindow(ip, k)) <= rlRate

\* a denied request leaves the visitors as they were
C39_DeniedStep ==
    (rlMu \in IPs /\ rlMu' = "free" /\ rlGrants' = rlGrants)
        => visitors' = visitors

C39_DeniedChangesNothing == [][C39_DeniedStep]_vars

=============================================================================
